---- MODULE Spec2Model ----
(***************************************************************************)
(* Model of the repository synchronisation engine of go-cli:               *)
(*   internal/git/scanner.go     Scanner.ScanDirectory                     *)
(*   internal/git/operations.go  Operations.CheckoutMainBranch and helpers *)
(*   internal/git/sync.go        Syncer.SyncRepositories and its workers   *)
(*                                                                         *)
(* Texts (command output, error strings, messages) are sequences of        *)
(* tokens; concatenation is \o and strings.Contains is a search for a      *)
(* contiguous run of tokens.  A nil error is the empty text.               *)
(*                                                                         *)
(* The git binary is an external process.  Its answers are an oracle       *)
(* record env: one field per command, the field of the plain pull holding  *)
(* one answer per invocation.  The functions of operations.go are          *)
(* operators that thread the log of the commands they invoked.             *)
(***************************************************************************)
EXTENDS Integers, Sequences, FiniteSets, TLC

\* ------------------------------------------------------------------------
\* Bounds
\* ------------------------------------------------------------------------

\* Largest number of entries in the scanned root directory.
MaxEntries == 2

\* ------------------------------------------------------------------------
\* Texts
\* ------------------------------------------------------------------------

Nil == <<>>

IsSpace(tok) == tok \in {" ", "\n", "\t"}

RECURSIVE TrimLeft(_)
TrimLeft(s) ==
    IF s = <<>> THEN <<>>
    ELSE IF IsSpace(Head(s)) THEN TrimLeft(Tail(s)) ELSE s

RECURSIVE TrimRight(_)
TrimRight(s) ==
    IF s = <<>> THEN <<>>
    ELSE IF IsSpace(s[Len(s)]) THEN TrimRight(SubSeq(s, 1, Len(s) - 1)) ELSE s

\* strings.TrimSpace
TrimSpace(s) == TrimRight(TrimLeft(s))

\* strings.Contains
Contains(s, sub) ==
    \E i \in 1..(Len(s) - Len(sub) + 1) : SubSeq(s, i, i + Len(sub) - 1) = sub

\* strings.Split(s, "/"): the pieces between the separators, never empty
\* as a list (the empty text splits into one empty piece).
RECURSIVE SplitFrom(_, _, _)
SplitFrom(s, cur, acc) ==
    IF s = <<>> THEN Append(acc, cur)
    ELSE IF Head(s) = "/" THEN SplitFrom(Tail(s), <<>>, Append(acc, cur))
    ELSE SplitFrom(Tail(s), Append(cur, Head(s)), acc)

Split(s) == SplitFrom(s, <<>>, <<>>)

\* ------------------------------------------------------------------------
\* The git process: arguments, answers, the command log
\* ------------------------------------------------------------------------

\* One argument is a text, an argument list a sequence of texts.
W(tok) == <<tok>>

ArgsDiffCached == <<W("diff"), W("--cached"), W("--quiet")>>
ArgsDiff == <<W("diff"), W("--quiet")>>
ArgsShowCurrent == <<W("branch"), W("--show-current")>>
ArgsSymbolicRef == <<W("symbolic-ref"), W("refs/remotes/origin/HEAD")>>
ArgsShowRef(name) ==
    <<W("show-ref"), W("--verify"), W("--quiet"), <<"refs/heads/", name>>>>
ArgsCheckout(branch) == <<W("checkout"), W(branch)>>
ArgsPull == <<W("pull")>>
ArgsFetch == <<W("fetch")>>
ArgsSetUpstream(branch) ==
    <<W("branch"), <<"--set-upstream-to=origin/", branch>>, W(branch)>>
ArgsPullOrigin(branch) == <<W("pull"), W("origin"), W(branch)>>

\* Exit statuses: 0, a status other than 0, or LaunchFailure when the
\* process could not be started (the error is then no *exec.ExitError).
LaunchFailure == -1

\* err.Error() of the error of a process that did not exit with status 0.
ExitText(code) ==
    CASE code = LaunchFailure -> <<"exec: git: executable file not found">>
      [] code = 1 -> <<"exit status 1">>
      [] OTHER -> <<"exit status 128">>

Answer(code, out) == [code |-> code, out |-> out]

OutUpToDate == <<"Already up to date.">>
OutNoTracking ==
    <<"There is ", "no tracking information", " for the current branch.">>
OutRemote == <<"fatal: ", "could not read from remote", " repository.">>
OutPathspec ==
    <<"error: ", "pathspec", " 'x' ", "did not match", " any file(s) known to git">>
OutNotARepo == <<"fatal: ", "not a git repository">>

DiffExits == {0, 1, 128, LaunchFailure}
PlainAnswers == {Answer(0, <<>>), Answer(1, OutRemote)}
PullAnswers ==
    {Answer(0, OutUpToDate), Answer(1, OutNoTracking), Answer(1, OutRemote)}
SymbolicRefAnswers ==
    { Answer(128, <<>>),
      Answer(0, <<"refs", "/", "remotes", "/", "origin", "/", "master", "\n">>),
      Answer(0, <<"refs", "/", "remotes", "/", "origin", "/", "feature", "/", "x", "\n">>) }
ShowCurrentAnswers ==
    { Answer(128, <<>>), Answer(0, <<"main", "\n">>), Answer(0, <<"dev", "\n">>) }

\* Every combination of answers of the git process to one working copy.
Envs ==
    [ staged : DiffExits,
      unstaged : DiffExits,
      symref : SymbolicRefAnswers,
      showMain : {Answer(0, <<>>), Answer(1, <<>>)},
      showMaster : {Answer(0, <<>>), Answer(1, <<>>)},
      current : ShowCurrentAnswers,
      checkout : {Answer(0, <<>>), Answer(1, OutPathspec)},
      pull : PullAnswers \X PullAnswers,
      fetch : PlainAnswers,
      setUpstream : {Answer(0, <<>>), Answer(128, <<"fatal: ", "no such branch">>)},
      pullOrigin : {Answer(0, OutUpToDate), Answer(1, OutRemote)} ]

\* Number of earlier invocations of the same command line in the log.
Invoked(log, args) == Cardinality({k \in 1..Len(log) : log[k].args = args})

\* The answer of the git process to the next invocation of args.
Oracle(env, log, args) ==
    LET n == Invoked(log, args) + 1 IN
    CASE args = ArgsDiffCached -> Answer(env.staged, <<>>)
      [] args = ArgsDiff -> Answer(env.unstaged, <<>>)
      [] args = ArgsSymbolicRef -> env.symref
      [] args = ArgsShowRef("main") -> env.showMain
      [] args = ArgsShowRef("master") -> env.showMaster
      [] args = ArgsShowCurrent -> env.current
      [] args = ArgsPull -> env.pull[IF n > 2 THEN 2 ELSE n]
      [] args = ArgsFetch -> env.fetch
      [] args[1] = W("checkout") -> env.checkout
      [] args[1] = W("branch") -> env.setUpstream
      [] OTHER -> env.pullOrigin

\* What running a command leaves: the exit status, the captured output and
\* the log extended by the invocation.
Ran(answer, log, dir, args) ==
    [ code |-> answer.code, out |-> answer.out,
      log |-> Append(log, [dir |-> dir, args |-> args, code |-> answer.code]) ]

\* exec.Command("git", args...) with cmd.Dir = dir, run to completion.
Run(env, log, dir, args) == Ran(Oracle(env, log, args), log, dir, args)

\* fmt.Errorf(prefix + "%w", err)
Wrap(prefix, err) == <<prefix>> \o err

\* ------------------------------------------------------------------------
\* operations.go
\*
\* Each function is written as its first command followed by an operator
\* for the rest of the function, which takes what that command returned.
\* ------------------------------------------------------------------------

\* The value executeGitCommand returns for a finished command.
gitCommandError(r) ==
    IF r.code # 0
    THEN [ err |-> <<"git command failed: ">> \o ExitText(r.code)
                     \o <<" (output: ">> \o r.out \o <<")">>,
           log |-> r.log ]
    ELSE [err |-> Nil, log |-> r.log]

\* Mutant of executeGitCommand: cmd.Dir is not set, the command runs in the
\* directory of the process.
executeGitCommandNoDir(env, log, repoPath, args) ==
    gitCommandError(Run(env, log, <<".">>, args))

executeGitCommand(env, log, repoPath, args) ==
    gitCommandError(Run(env, log, repoPath, args))

\* Mutant of unstagedChanges: exit status 1 of the unstaged check is clean.
unstagedChangesIgnored(unstaged) ==
    IF unstaged.code # 0 /\ ~(unstaged.code # LaunchFailure /\ unstaged.code = 1)
    THEN [ val |-> FALSE,
           err |-> Wrap("failed to check unstaged changes: ", ExitText(unstaged.code)),
           log |-> unstaged.log ]
    ELSE [val |-> FALSE, err |-> Nil, log |-> unstaged.log]

\* hasUncommittedChanges from the end of the unstaged check.
unstagedChanges(unstaged) ==
    IF unstaged.code # 0
    THEN IF unstaged.code # LaunchFailure /\ unstaged.code = 1
         THEN [val |-> TRUE, err |-> Nil, log |-> unstaged.log]
         ELSE [ val |-> FALSE,
                err |-> Wrap("failed to check unstaged changes: ",
                             ExitText(unstaged.code)),
                log |-> unstaged.log ]
    ELSE [val |-> FALSE, err |-> Nil, log |-> unstaged.log]

\* Mutant of stagedChanges: every exit status other than 0 of the staged
\* check means differences.
stagedChangesAnyStatus(env, repoPath, staged) ==
    IF staged.code # 0
    THEN IF staged.code # LaunchFailure
         THEN [val |-> TRUE, err |-> Nil, log |-> staged.log]
         ELSE [ val |-> FALSE,
                err |-> Wrap("failed to check staged changes: ", ExitText(staged.code)),
                log |-> staged.log ]
    ELSE unstagedChanges(Run(env, staged.log, repoPath, ArgsDiff))

\* hasUncommittedChanges from the end of the staged check.
stagedChanges(env, repoPath, staged) ==
    IF staged.code # 0
    THEN IF staged.code # LaunchFailure /\ staged.code = 1
         THEN [val |-> TRUE, err |-> Nil, log |-> staged.log]
         ELSE [ val |-> FALSE,
                err |-> Wrap("failed to check staged changes: ", ExitText(staged.code)),
                log |-> staged.log ]
    ELSE unstagedChanges(Run(env, staged.log, repoPath, ArgsDiff))

hasUncommittedChanges(env, log, repoPath) ==
    stagedChanges(env, repoPath, Run(env, log, repoPath, ArgsDiffCached))

\* Mutant of currentBranchOutput: a failed read gives the empty branch name
\* and no error.
currentBranchOutputLenient(r) == [val |-> TrimSpace(r.out), err |-> Nil, log |-> r.log]

\* getCurrentBranch from the end of the command.
currentBranchOutput(r) ==
    IF r.code # 0
    THEN [ val |-> <<>>,
           err |-> Wrap("failed to get current branch: ", ExitText(r.code)),
           log |-> r.log ]
    ELSE [val |-> TrimSpace(r.out), err |-> Nil, log |-> r.log]

getCurrentBranch(env, log, repoPath) ==
    currentBranchOutput(Run(env, log, repoPath, ArgsShowCurrent))

\* Mutant of explicitPulled: a failure of the explicit pull is not returned.
explicitPulledSwallowed(branchName, explicit) == [err |-> Nil, log |-> explicit.log]

\* setupTrackingAndPull from the end of "pull origin <branch>".
explicitPulled(branchName, explicit) ==
    IF explicit.err # Nil
    THEN [ err |-> <<"failed to pull from origin/", branchName, ": ">> \o explicit.err,
           log |-> explicit.log ]
    ELSE [err |-> Nil, log |-> explicit.log]

\* Mutant of pulledAgain: a retried pull that again lacks tracking
\* information starts a second round of fetch and pull.
pulledAgainRetrying(env, repoPath, again) ==
    IF again.err # Nil /\ Contains(again.err, <<"no tracking information">>)
    THEN explicitPulled("",
            executeGitCommand(env,
                executeGitCommand(env, again.log, repoPath, ArgsFetch).log,
                repoPath, ArgsPull))
    ELSE IF again.err # Nil
    THEN [ err |-> Wrap("failed to pull after setting upstream: ", again.err),
           log |-> again.log ]
    ELSE [err |-> Nil, log |-> again.log]

\* setupTrackingAndPull from the end of the second plain pull.
pulledAgain(env, repoPath, again) ==
    IF again.err # Nil
    THEN [ err |-> Wrap("failed to pull after setting upstream: ", again.err),
           log |-> again.log ]
    ELSE [err |-> Nil, log |-> again.log]

\* Mutant of upstreamSet: the plain pull is retried whether or not the
\* upstream was set.
upstreamSetPlainRetry(env, repoPath, branchName, up) ==
    pulledAgain(env, repoPath, executeGitCommand(env, up.log, repoPath, ArgsPull))

\* setupTrackingAndPull from the end of the set-upstream command.
upstreamSet(env, repoPath, branchName, up) ==
    IF up.err # Nil
    THEN explicitPulled(branchName,
            executeGitCommand(env, up.log, repoPath, ArgsPullOrigin(branchName)))
    ELSE pulledAgain(env, repoPath,
            executeGitCommand(env, up.log, repoPath, ArgsPull))

\* Mutant of fetched: the pull is retried right after the fetch, no upstream
\* is set.
fetchedNoUpstream(env, repoPath, branchName, fetch) ==
    IF fetch.err # Nil
    THEN [err |-> Wrap("failed to fetch: ", fetch.err), log |-> fetch.log]
    ELSE pulledAgain(env, repoPath,
            executeGitCommand(env, fetch.log, repoPath, ArgsPull))

\* setupTrackingAndPull from the end of the fetch.
fetched(env, repoPath, branchName, fetch) ==
    IF fetch.err # Nil
    THEN [err |-> Wrap("failed to fetch: ", fetch.err), log |-> fetch.log]
    ELSE upstreamSet(env, repoPath, branchName,
            executeGitCommand(env, fetch.log, repoPath, ArgsSetUpstream(branchName)))

setupTrackingAndPull(env, log, repoPath, branchName) ==
    fetched(env, repoPath, branchName,
            executeGitCommand(env, log, repoPath, ArgsFetch))

\* Mutant of pulledFirst: every failed pull starts the fallback.
pulledFirstAlwaysFallback(env, repoPath, branchName, first) ==
    IF first.err = Nil THEN [err |-> Nil, log |-> first.log]
    ELSE setupTrackingAndPull(env, first.log, repoPath, branchName)

\* pullWithFallback from the end of the first plain pull.
pulledFirst(env, repoPath, branchName, first) ==
    IF first.err = Nil THEN [err |-> Nil, log |-> first.log]
    ELSE IF Contains(first.err, <<"no tracking information">>)
         THEN setupTrackingAndPull(env, first.log, repoPath, branchName)
         ELSE [err |-> first.err, log |-> first.log]

pullWithFallback(env, log, repoPath, branchName) ==
    pulledFirst(env, repoPath, branchName,
                executeGitCommand(env, log, repoPath, ArgsPull))

\* parts[len(parts)-1]; a piece is a single token, or empty.
LastPart(parts) ==
    IF parts[Len(parts)] = <<>> THEN "" ELSE parts[Len(parts)][1]

\* getDefaultBranch from the end of the probe of refs/heads/master.
masterProbed(master) ==
    IF master.err = Nil
    THEN [val |-> "master", err |-> Nil, log |-> master.log]
    ELSE [val |-> "main", err |-> Nil, log |-> master.log]

\* getDefaultBranch from the end of the probe of refs/heads/main.
mainProbed(env, repoPath, main) ==
    IF main.err = Nil
    THEN [val |-> "main", err |-> Nil, log |-> main.log]
    ELSE masterProbed(executeGitCommand(env, main.log, repoPath, ArgsShowRef("master")))

\* Mutant of probeLocalBranches: master is probed before main.
probeLocalBranchesMasterFirst(env, log, repoPath) ==
    masterProbed(executeGitCommand(env, log, repoPath, ArgsShowRef("master")))

\* The two fallbacks of getDefaultBranch.
probeLocalBranches(env, log, repoPath) ==
    mainProbed(env, repoPath, executeGitCommand(env, log, repoPath, ArgsShowRef("main")))

\* getDefaultBranch from the end of the symbolic-ref query.
symbolicRefRead(env, repoPath, sym) ==
    IF sym.code = 0 /\ Len(Split(TrimSpace(sym.out))) > 0
    THEN [val |-> LastPart(Split(TrimSpace(sym.out))), err |-> Nil, log |-> sym.log]
    ELSE probeLocalBranches(env, sym.log, repoPath)

getDefaultBranch(env, log, repoPath) ==
    symbolicRefRead(env, repoPath, Run(env, log, repoPath, ArgsSymbolicRef))

\* Mutant of TargetBranch: only the empty branch name selects the default.
TargetBranchEmptyOnly(branchName, defaultBranch) ==
    IF branchName = "" THEN defaultBranch ELSE branchName

\* Mutant of TargetBranch: the detected default always wins.
TargetBranchAlwaysDefault(branchName, defaultBranch) == defaultBranch

\* targetBranch := branchName, replaced by the detected default when it is
\* empty or "main".
TargetBranch(branchName, defaultBranch) ==
    IF branchName = "" \/ branchName = "main" THEN defaultBranch ELSE branchName

\* The outcome of CheckoutMainBranch: the OperationResult it returns, the
\* log of the git commands it invoked, and the value of its local
\* targetBranch (NoBranch while it is not assigned).
NoBranch == "<unset>"

Returned(result, log, target) == [result |-> result, log |-> log, target |-> target]

\* Mutant of Failed: the failed outcome carries no error value.
FailedWithoutError(repo, err) ==
    [Repository |-> repo, Success |-> FALSE, Error |-> Nil, Message |-> err]

\* A failed outcome: result.Error = err; result.Message = result.Error.Error()
Failed(repo, err) ==
    [Repository |-> repo, Success |-> FALSE, Error |-> err, Message |-> err]

\* The branch name in the trimmed output of "branch --show-current".
BranchName(text) == IF text = <<>> THEN "" ELSE text[1]

\* Mutant of checkoutPulled: the success message always reports a checkout.
checkoutPulledAlwaysCheckedOut(repo, targetBranch, currentBranch, pull) ==
    IF pull.err # Nil
    THEN Returned(Failed(repo, Wrap("failed to pull latest changes: ", pull.err)),
                  pull.log, targetBranch)
    ELSE Returned([ Repository |-> repo, Success |-> TRUE, Error |-> Nil,
                    Message |-> <<"Checked out '", targetBranch,
                                  "' and pulled latest changes">> ],
                  pull.log, targetBranch)

\* CheckoutMainBranch from the return of pullWithFallback.
checkoutPulled(repo, targetBranch, currentBranch, pull) ==
    IF pull.err # Nil
    THEN Returned(Failed(repo, Wrap("failed to pull latest changes: ", pull.err)),
                  pull.log, targetBranch)
    ELSE Returned([ Repository |-> repo, Success |-> TRUE, Error |-> Nil,
                    Message |-> IF currentBranch # targetBranch
                                THEN <<"Checked out '", targetBranch,
                                       "' and pulled latest changes">>
                                ELSE <<"Already on '", targetBranch,
                                       "', pulled latest changes">> ],
                  pull.log, targetBranch)

\* Mutant of checkoutDone: the error of the checkout is dropped and the pull
\* goes ahead.
checkoutDoneUnchecked(env, repo, targetBranch, currentBranch, co) ==
    checkoutPulled(repo, targetBranch, currentBranch,
                   pullWithFallback(env, co.log, repo.Path, targetBranch))

\* CheckoutMainBranch from the end of the checkout (co is a nil error and
\* the unchanged log when no checkout was needed).
checkoutDone(env, repo, targetBranch, currentBranch, co) ==
    IF co.err # Nil
    THEN Returned(Failed(repo, <<"failed to checkout branch '", targetBranch, "': ">>
                               \o co.err),
                  co.log, targetBranch)
    ELSE checkoutPulled(repo, targetBranch, currentBranch,
                        pullWithFallback(env, co.log, repo.Path, targetBranch))

\* Mutant of checkoutCurrent: the target is checked out whatever the current
\* branch is.
checkoutCurrentAlways(env, repo, targetBranch, cur) ==
    IF cur.err # Nil
    THEN Returned(Failed(repo, Wrap("failed to get current branch: ", cur.err)),
                  cur.log, targetBranch)
    ELSE checkoutDone(env, repo, targetBranch, BranchName(cur.val),
            executeGitCommand(env, cur.log, repo.Path, ArgsCheckout(targetBranch)))

\* CheckoutMainBranch from the return of getCurrentBranch.
checkoutCurrent(env, repo, targetBranch, cur) ==
    IF cur.err # Nil
    THEN Returned(Failed(repo, Wrap("failed to get current branch: ", cur.err)),
                  cur.log, targetBranch)
    ELSE checkoutDone(env, repo, targetBranch, BranchName(cur.val),
            IF BranchName(cur.val) # targetBranch
            THEN executeGitCommand(env, cur.log, repo.Path, ArgsCheckout(targetBranch))
            ELSE [err |-> Nil, log |-> cur.log])

\* CheckoutMainBranch from the return of getDefaultBranch.
checkoutDefault(env, repo, branchName, def) ==
    IF def.err # Nil
    THEN Returned(Failed(repo, Wrap("failed to determine default branch: ", def.err)),
                  def.log, NoBranch)
    ELSE checkoutCurrent(env, repo, TargetBranch(branchName, def.val),
                         getCurrentBranch(env, def.log, repo.Path))

\* Mutant of checkoutGuarded: a guard that could not run is taken for a
\* clean working copy.
checkoutGuardedLenient(env, repo, branchName, guard) ==
    IF guard.err = Nil /\ guard.val
    THEN Returned([ Repository |-> repo, Success |-> FALSE,
                    Error |-> <<"repository has uncommitted changes">>,
                    Message |-> <<"Skipped: Repository has ", "uncommitted changes",
                                  ". ", "Please commit or stash changes first", ".">> ],
                  guard.log, NoBranch)
    ELSE checkoutDefault(env, repo, branchName,
                         getDefaultBranch(env, guard.log, repo.Path))

\* CheckoutMainBranch from the return of hasUncommittedChanges.
checkoutGuarded(env, repo, branchName, guard) ==
    IF guard.err # Nil
    THEN Returned(Failed(repo, Wrap("failed to check repository status: ", guard.err)),
                  guard.log, NoBranch)
    ELSE IF guard.val
    THEN Returned([ Repository |-> repo, Success |-> FALSE,
                    Error |-> <<"repository has uncommitted changes">>,
                    Message |-> <<"Skipped: Repository has ", "uncommitted changes",
                                  ". ", "Please commit or stash changes first", ".">> ],
                  guard.log, NoBranch)
    ELSE checkoutDefault(env, repo, branchName,
                         getDefaultBranch(env, guard.log, repo.Path))

CheckoutMainBranch(env, repo, branchName) ==
    checkoutGuarded(env, repo, branchName, hasUncommittedChanges(env, <<>>, repo.Path))

\* ------------------------------------------------------------------------
\* operations.go: handleGitError, the classifier of failed git commands
\*
\* Its matching rules are those of the specification (section 4.5), its
\* message templates carry the phrases its test table asserts.  A phrase a
\* rule looks for is one token or a fixed run of tokens of a text.
\* ------------------------------------------------------------------------

\* strings.ToLower of one token, on the tokens of this model that hold an
\* upper-case letter.
Lower(tok) ==
    CASE tok = "Already on" -> "already on"
      [] tok = "Permission denied" -> "permission denied"
      [] tok = "Could not read from remote" -> "could not read from remote"
      [] tok = "Your local changes to the following files"
            -> "your local changes to the following files"
      [] tok = "No such file or directory" -> "no such file or directory"
      [] tok = "There is " -> "there is "
      [] tok = "Already up to date." -> "already up to date."
      [] OTHER -> tok

\* strings.ToLower
ToLower(s) == [i \in DOMAIN s |-> Lower(s[i])]

\* The name under which rule 2 knows the branch.
BranchSentinel == "main"

\* The error value of a classified failure: it keeps the raw output.
ClassifiedError(output, command) == <<"git ", command, " failed: ">> \o output


\* The fixed message of a failure kind.
KindMessage(kind) ==
    CASE kind = "UncommittedChanges"
            -> <<"Repository has ", "uncommitted changes", ". ",
                 "Please commit or stash changes first", ".">>
      [] kind = "AlreadyCurrent" -> <<"Already on '", BranchSentinel, "' branch">>
      [] kind = "BranchNotFound" -> <<"Branch ", "does not exist">>
      [] kind = "NotARepository" -> <<"Not a valid", " Git repository">>
      [] kind = "PathNotFound" -> <<"Repository path not found">>
      [] kind = "PermissionDenied" -> <<"Permission denied">>
      [] kind = "RemoteInaccessible"
            -> <<"Remote repository ", "not accessible or not found">>
      [] kind = "NoTrackingBranch" -> <<"No tracking branch configured">>

\* The message of the catch-all kind.
MsgCommandFailed(output, command) == <<"Git ", command, " failed", ": ">> \o output

Classified(kind, output, command) ==
    [ kind |-> kind, err |-> ClassifiedError(output, command),
      msg |-> IF kind = "CommandFailed" THEN MsgCommandFailed(output, command)
              ELSE KindMessage(kind) ]

\* Mutant of classifyDefault: an unmatched text gets a fixed message.
classifyDefaultAnonymous(output, command) ==
    [ kind |-> "CommandFailed", err |-> ClassifiedError(output, command),
      msg |-> <<"Git command", " failed">> ]

\* Rule 10.
classifyDefault(output, command) ==
    Classified("CommandFailed", output, command)

\* Mutant of classifyLate: the tracking rule is tried before the remote rule.
classifyLateTrackingFirst(output, command, lower) ==
    IF Contains(lower, <<"permission denied">>)
    THEN Classified("PermissionDenied", output, command)
    ELSE IF Contains(lower, <<"no tracking information">>)
    THEN Classified("NoTrackingBranch", output, command)
    ELSE IF Contains(lower, <<"repository", " ", "not found">>)
            \/ Contains(lower, <<"could not read from remote">>)
    THEN Classified("RemoteInaccessible", output, command)
    ELSE IF Contains(lower, <<"your local changes to the following files">>)
    THEN Classified("UncommittedChanges", output, command)
    ELSE classifyDefault(output, command)

\* Rules 6 to 9, in their order, applied to the lower-cased output.
classifyLate(output, command, lower) ==
    IF Contains(lower, <<"permission denied">>)
    THEN Classified("PermissionDenied", output, command)
    ELSE IF Contains(lower, <<"repository", " ", "not found">>)
            \/ Contains(lower, <<"could not read from remote">>)
    THEN Classified("RemoteInaccessible", output, command)
    ELSE IF Contains(lower, <<"no tracking information">>)
    THEN Classified("NoTrackingBranch", output, command)
    ELSE IF Contains(lower, <<"your local changes to the following files">>)
    THEN Classified("UncommittedChanges", output, command)
    ELSE classifyDefault(output, command)

\* Rules 1 to 5, in their order, applied to the lower-cased output.
classifyLowered(output, command, lower) ==
    IF Contains(lower, <<"uncommitted changes">>)
       \/ Contains(lower, <<"would be overwritten">>)
    THEN Classified("UncommittedChanges", output, command)
    ELSE IF Contains(lower, <<"already on">>) /\ Contains(lower, <<BranchSentinel>>)
    THEN Classified("AlreadyCurrent", output, command)
    ELSE IF Contains(lower, <<"did not match", " any file">>)
            \/ (Contains(lower, <<"pathspec">>) /\ Contains(lower, <<"did not match">>))
    THEN Classified("BranchNotFound", output, command)
    ELSE IF Contains(lower, <<"not a git repository">>)
    THEN Classified("NotARepository", output, command)
    ELSE IF Contains(lower, <<"no such file or directory">>)
    THEN Classified("PathNotFound", output, command)
    ELSE classifyLate(output, command, lower)

handleGitError(output, command) == classifyLowered(output, command, ToLower(output))

\* ------------------------------------------------------------------------
\* scanner.go
\* ------------------------------------------------------------------------

RootDir == <<"/work">>

\* os.ReadDir lists the entries sorted by file name.
EntryNames == <<"alpha", "beta", "gamma", "delta", "epsilon">>

\* A plain file, a directory without .git, a directory without .git that
\* holds a repository one level deeper, a directory with .git.
EntryKinds == {"file", "dir", "nested", "repo"}

\* filepath.Join(rootDir, name)
Join(dir, name) == dir \o <<"/", name>>

\* Mutant of ScanEntries: every directory is taken for a repository.
RECURSIVE ScanEntriesAnyDirectory(_, _, _)
ScanEntriesAnyDirectory(rootDir, entries, repositories) ==
    IF entries = <<>> THEN repositories
    ELSE LET entry == Head(entries)
             dirPath == Join(rootDir, entry.name)
         IN ScanEntriesAnyDirectory(rootDir, Tail(entries),
                IF entry.kind # "file"
                THEN Append(repositories, [Path |-> dirPath, Name |-> entry.name])
                ELSE repositories)

\* The loop over the entries: entry.IsDir() and os.Stat(dirPath/.git).
RECURSIVE ScanEntries(_, _, _)
ScanEntries(rootDir, entries, repositories) ==
    IF entries = <<>> THEN repositories
    ELSE LET entry == Head(entries)
             dirPath == Join(rootDir, entry.name)
         IN ScanEntries(rootDir, Tail(entries),
                IF entry.kind # "file" /\ entry.kind = "repo"
                THEN Append(repositories, [Path |-> dirPath, Name |-> entry.name])
                ELSE repositories)

\* Mutant of ScanDirectory: a root that cannot be listed is an empty root.
ScanDirectoryLenient(root, entries, rootDir) ==
    IF root # "dir"
    THEN [repos |-> <<>>, err |-> Nil]
    ELSE [repos |-> ScanEntries(rootDir, entries, <<>>), err |-> Nil]

\* Mutant of ScanDirectory: a missing root is an empty root.
ScanDirectoryMissingAsEmpty(root, entries, rootDir) ==
    IF root = "missing"
    THEN [repos |-> <<>>, err |-> Nil]
    ELSE IF root # "dir"
    THEN [repos |-> <<>>, err |-> <<"open ">> \o rootDir \o <<": not a directory">>]
    ELSE [repos |-> ScanEntries(rootDir, entries, <<>>), err |-> Nil]

\* root is "missing", "file" (os.ReadDir fails) or "dir".
ScanDirectory(root, entries, rootDir) ==
    IF root = "missing"
    THEN [repos |-> <<>>, err |-> <<"stat ">> \o rootDir \o <<": no such file or directory">>]
    ELSE IF root # "dir"
    THEN [repos |-> <<>>, err |-> <<"open ">> \o rootDir \o <<": not a directory">>]
    ELSE [repos |-> ScanEntries(rootDir, entries, <<>>), err |-> Nil]

\* ------------------------------------------------------------------------
\* sync.go
\* ------------------------------------------------------------------------

VARIABLES
    root,          \* state of the root directory: "missing", "file", "dir"
    entries,       \* the entries of the root directory, in listing order
    branchName,    \* the branch passed to SyncRepositories
    pc,            \* position of SyncRepositories
    repositories,  \* the slice returned by ScanDirectory
    results,       \* the slice made by processRepositoriesParallel
    next,          \* index of the next goroutine the loop launches
    wg,            \* counter of the sync.WaitGroup
    worker,        \* per goroutine: position, arguments, local result
    wlog,          \* per goroutine: the git commands it invoked
    out,           \* the lines written to standard output
    ret,           \* what SyncRepositories returned
    opPc,          \* position of a single call of a function of operations.go
    opEnv,         \* the answers of the git process during that call
    opBranch,      \* the branch argument of that call
    opRet,         \* what that call returned
    opArgs,        \* the other arguments of that call
    flag,          \* the --branch flag of the sync command, as given
    cfg,           \* the configuration the sync command loaded
    cmdPc,         \* position of runSync
    cmdNext,       \* index of the next goroutine runSync launches
    cmdWg,         \* counter of the sync.WaitGroup of runSync
    mu,            \* the sync.Mutex of runSync is held
    successCount,  \* runSync's counter of synced repositories
    failureCount,  \* runSync's counter of failed repositories
    cmdWorker,     \* per goroutine of runSync: position, argument, locals
    cmdOut,        \* the lines the sync command wrote
    exit,          \* the exit status of the process, once it has exited
    composeInstalled, \* the compose CLI of the machine: "plugin", "standalone", "none"
    mgrOp,         \* the method of docker.Manager that was called
    mgrPc,         \* position inside that method and the functions it calls
    filePath,      \* FilePath of the ComposeConfig in use
    ticks,         \* ticks the running wait loop has taken from its ticker
    dockerLog,     \* the external commands the docker package ran, with answers
    mgrErr         \* the error returned by the function that returned last

syncVars == <<root, entries, branchName, pc, repositories, results, next, wg,
              worker, wlog, out, ret>>
opVars == <<opPc, opEnv, opBranch, opRet, opArgs>>
cmdVars == <<flag, cfg, cmdPc, cmdNext, cmdWg, mu, successCount, failureCount,
             cmdWorker, cmdOut, exit>>
dockerVars == <<composeInstalled, mgrOp, mgrPc, filePath, ticks, dockerLog, mgrErr>>
vars == <<root, entries, branchName, pc, repositories, results, next, wg,
          worker, wlog, out, ret, opPc, opEnv, opBranch, opRet, opArgs,
          flag, cfg, cmdPc, cmdNext, cmdWg, mu, successCount, failureCount,
          cmdWorker, cmdOut, exit,
          composeInstalled, mgrOp, mgrPc, filePath, ticks, dockerLog, mgrErr>>

\* The branch arguments tried.
BranchInputs == {"", "main", "dev"}

\* The zero value of OperationResult.
ZeroResult ==
    [ Repository |-> [Path |-> <<>>, Name |-> ""], Success |-> FALSE,
      Error |-> Nil, Message |-> <<>> ]

NoResult == [isNil |-> TRUE]

SyncResult(total, success, failure, res) ==
    [ isNil |-> FALSE, TotalRepositories |-> total, SuccessCount |-> success,
      FailureCount |-> failure, Results |-> res ]

\* Mutant of Summarize: a failed outcome is not counted.
RECURSIVE SummarizeSuccessOnly(_, _)
SummarizeSuccessOnly(syncResult, res) ==
    IF res = <<>> THEN syncResult
    ELSE SummarizeSuccessOnly(
            IF Head(res).Success
            THEN [syncResult EXCEPT !.SuccessCount = @ + 1]
            ELSE syncResult,
            Tail(res))

\* The summary loop of SyncRepositories.
RECURSIVE Summarize(_, _)
Summarize(syncResult, res) ==
    IF res = <<>> THEN syncResult
    ELSE Summarize(
            IF Head(res).Success
            THEN [syncResult EXCEPT !.SuccessCount = @ + 1]
            ELSE [syncResult EXCEPT !.FailureCount = @ + 1],
            Tail(res))

\* The answers of the git process tried for the working copies of a batch:
\* clean, with staged changes or with a staged check that cannot run, on
\* branch dev, the first pull succeeding, failing or lacking tracking
\* information, the second succeeding or failing.
SyncEnvs ==
    [ staged : {0, 1, 128},
      unstaged : {0},
      symref : {Answer(128, <<>>)},
      showMain : {Answer(0, <<>>)},
      showMaster : {Answer(0, <<>>)},
      current : {Answer(0, <<"dev", "\n">>)},
      checkout : {Answer(0, <<>>)},
      pull : PullAnswers \X {Answer(0, OutUpToDate), Answer(1, OutRemote)},
      fetch : {Answer(0, <<>>)},
      setUpstream : {Answer(0, <<>>)},
      pullOrigin : {Answer(0, OutUpToDate)} ]

\* Mutant of IsEmptyBatch: no early return.
IsEmptyBatchNever(repos) == FALSE

\* if len(repositories) == 0
IsEmptyBatch(repos) == Len(repos) = 0

\* Mutant of Store: the outcome is appended, it takes the first free slot.
StoreAppend(res, index, result) ==
    LET free == {k \in DOMAIN res : res[k] = ZeroResult} IN
    IF free = {} THEN res
    ELSE [res EXCEPT ![CHOOSE k \in free : \A m \in free : k <= m] = result]

\* results[index] = result
Store(res, index, result) == [res EXCEPT ![index] = result]

Listings ==
    UNION { [1..n -> EntryKinds] : n \in 0..MaxEntries }

Idle == [at |-> "idle", index |-> 0, repository |-> ZeroResult.Repository,
         result |-> ZeroResult]

InitSyncIdle ==
    /\ root = "missing" /\ entries = <<>> /\ branchName = "" /\ pc = "unused"
    /\ repositories = <<>> /\ results = <<>> /\ next = 1 /\ wg = 0
    /\ worker = <<>> /\ wlog = <<>> /\ out = <<>> /\ ret = <<>>

InitOpIdle ==
    /\ opPc = "unused" /\ opEnv = <<>> /\ opBranch = "" /\ opRet = <<>>
    /\ opArgs = <<>>

InitCmdIdle ==
    /\ flag = <<>> /\ cfg = <<>> /\ cmdPc = "unused" /\ cmdNext = 1 /\ cmdWg = 0
    /\ mu = FALSE /\ successCount = 0 /\ failureCount = 0
    /\ cmdWorker = <<>> /\ cmdOut = <<>> /\ exit = <<>>

InitDockerIdle ==
    /\ composeInstalled = "none" /\ mgrOp = "unused" /\ mgrPc = "unused"
    /\ filePath = <<>> /\ ticks = 0 /\ dockerLog = <<>> /\ mgrErr = <<>>

Init ==
    /\ root \in {"missing", "file", "dir"}
    /\ \E kinds \in Listings :
          /\ root # "dir" => kinds = <<>>
          /\ entries = [k \in 1..Len(kinds) |-> [name |-> EntryNames[k], kind |-> kinds[k]]]
    /\ branchName \in BranchInputs
    /\ pc = "scan"
    /\ repositories = <<>>
    /\ results = <<>>
    /\ next = 1
    /\ wg = 0
    /\ worker = <<>>
    /\ wlog = <<>>
    /\ out = <<>>
    /\ ret = <<>>
    /\ InitOpIdle
    /\ InitCmdIdle
    /\ InitDockerIdle

\* SyncRepositories up to the launch loop: the scan, the two early returns,
\* the "Found" lines and the allocation of the result slots.
Scan ==
    /\ pc = "scan"
    /\ LET s == ScanDirectory(root, entries, RootDir) IN
       IF s.err # Nil
       THEN /\ pc' = "done"
            /\ ret' = [result |-> NoResult,
                       err |-> Wrap("failed to scan directory: ", s.err)]
            /\ UNCHANGED <<repositories, results, worker, wlog, out>>
       ELSE IF IsEmptyBatch(s.repos)
       THEN /\ pc' = "done"
            /\ ret' = [result |-> SyncResult(0, 0, 0, <<>>), err |-> Nil]
            /\ repositories' = s.repos
            /\ UNCHANGED <<results, worker, wlog, out>>
       ELSE /\ pc' = "launch"
            /\ repositories' = s.repos
            /\ out' = out \o << <<"Found ", ToString(Len(s.repos)), " repositories">>,
                                <<>> >>
            /\ results' = [i \in 1..Len(s.repos) |-> ZeroResult]
            /\ worker' = [i \in 1..Len(s.repos) |-> Idle]
            /\ wlog' = [i \in 1..Len(s.repos) |-> <<>>]
            /\ UNCHANGED ret
    /\ UNCHANGED <<root, entries, branchName, next, wg>>
    /\ UNCHANGED <<opVars, cmdVars, dockerVars>>

\* Mutant of GoArgs: the goroutine reads the loop variables when it runs,
\* after the loop has ended.
GoArgsCaptured(i, repos) == [index |-> Len(repos), repository |-> repos[Len(repos)]]

\* The arguments the loop passes to the goroutine of its i-th iteration.
GoArgs(i, repos) == [index |-> i, repository |-> repos[i]]

\* One iteration of the launch loop: wg.Add(1); go func(index, repository).
Launch ==
    /\ pc = "launch"
    /\ next <= Len(repositories)
    /\ wg' = wg + 1
    /\ worker' = [worker EXCEPT ![next] =
                    [ at |-> "start",
                      index |-> GoArgs(next, repositories).index,
                      repository |-> GoArgs(next, repositories).repository,
                      result |-> ZeroResult ]]
    /\ next' = next + 1
    /\ UNCHANGED <<root, entries, branchName, pc, repositories, results, wlog, out, ret>>
    /\ UNCHANGED <<opVars, cmdVars, dockerVars>>

\* s.output.Plain("  %s", repository.Name)
PrintName(w) ==
    /\ worker[w].at = "start"
    /\ out' = Append(out, <<"  name ", worker[w].repository.Name>>)
    /\ worker' = [worker EXCEPT ![w].at = "sync"]
    /\ UNCHANGED <<root, entries, branchName, pc, repositories, results, next, wg,
                   wlog, ret>>
    /\ UNCHANGED <<opVars, cmdVars, dockerVars>>

\* result := s.operations.CheckoutMainBranch(repository, branchName)
Sync(w) ==
    /\ worker[w].at = "sync"
    /\ \E env \in SyncEnvs :
          LET r == CheckoutMainBranch(env, worker[w].repository, branchName) IN
          /\ worker' = [worker EXCEPT ![w].at = "write", ![w].result = r.result]
          /\ wlog' = [wlog EXCEPT ![w] = r.log]
    /\ UNCHANGED <<root, entries, branchName, pc, repositories, results, next, wg,
                   out, ret>>
    /\ UNCHANGED <<opVars, cmdVars, dockerVars>>

\* Mutant of Write: the goroutine goes on to its outcome line with its slot
\* still unwritten.
WriteSkipped(w) ==
    /\ worker[w].at = "write"
    /\ worker' = [worker EXCEPT ![w].at = "print"]
    /\ UNCHANGED <<root, entries, branchName, pc, repositories, results, next, wg,
                   wlog, out, ret>>
    /\ UNCHANGED <<opVars, cmdVars, dockerVars>>

\* results[index] = result
Write(w) ==
    /\ worker[w].at = "write"
    /\ results' = Store(results, worker[w].index, worker[w].result)
    /\ worker' = [worker EXCEPT ![w].at = "print"]
    /\ UNCHANGED <<root, entries, branchName, pc, repositories, next, wg, wlog,
                   out, ret>>
    /\ UNCHANGED <<opVars, cmdVars, dockerVars>>

\* The outcome line, then the deferred wg.Done().
PrintOutcome(w) ==
    /\ worker[w].at = "print"
    /\ out' = Append(out, <<IF worker[w].result.Success THEN "     ok " ELSE "     failed ">>
                          \o worker[w].result.Message)
    /\ wg' = wg - 1
    /\ worker' = [worker EXCEPT ![w].at = "done"]
    /\ UNCHANGED <<root, entries, branchName, pc, repositories, results, next,
                   wlog, ret>>
    /\ UNCHANGED <<opVars, cmdVars, dockerVars>>

\* Mutant of Wait: the loop's end is not followed by a barrier.
WaitNoBarrier ==
    /\ pc = "launch"
    /\ next > Len(repositories)
    /\ pc' = "summary"
    /\ UNCHANGED <<root, entries, branchName, repositories, results, next, wg,
                   worker, wlog, out, ret>>
    /\ UNCHANGED <<opVars, cmdVars, dockerVars>>

\* Mutant of Wait: the barrier gives up on goroutines whose command does not
\* return.
WaitTimeout ==
    /\ pc = "launch"
    /\ next > Len(repositories)
    /\ \A w \in DOMAIN worker : worker[w].at \in {"done", "blocked"}
    /\ pc' = "summary"
    /\ UNCHANGED <<root, entries, branchName, repositories, results, next, wg,
                   worker, wlog, out, ret>>
    /\ UNCHANGED <<opVars, cmdVars, dockerVars>>

\* wg.Wait() returns once the loop has ended and the counter is zero.
Wait ==
    /\ pc = "launch"
    /\ next > Len(repositories)
    /\ wg = 0
    /\ pc' = "summary"
    /\ UNCHANGED <<root, entries, branchName, repositories, results, next, wg,
                   worker, wlog, out, ret>>
    /\ UNCHANGED <<opVars, cmdVars, dockerVars>>

\* Mutant of Aggregate: a failed outcome aborts the batch with an error.
AggregateAbort ==
    /\ pc = "summary"
    /\ ret' = IF \E i \in DOMAIN results : ~results[i].Success
              THEN [result |-> NoResult, err |-> <<"sync aborted">>]
              ELSE [ result |-> Summarize(SyncResult(Len(repositories), 0, 0, results),
                                         results),
                     err |-> Nil ]
    /\ pc' = "done"
    /\ UNCHANGED <<root, entries, branchName, repositories, results, next, wg,
                   worker, wlog, out>>
    /\ UNCHANGED <<opVars, cmdVars, dockerVars>>

\* The summary of SyncRepositories and its return.
Aggregate ==
    /\ pc = "summary"
    /\ ret' = [ result |-> Summarize(SyncResult(Len(repositories), 0, 0, results),
                                    results),
                err |-> Nil ]
    /\ pc' = "done"
    /\ UNCHANGED <<root, entries, branchName, repositories, results, next, wg,
                   worker, wlog, out>>
    /\ UNCHANGED <<opVars, cmdVars, dockerVars>>

Next ==
    \/ Scan
    \/ Launch
    \/ \E w \in DOMAIN worker : PrintName(w)
    \/ \E w \in DOMAIN worker : Sync(w)
    \/ \E w \in DOMAIN worker : Write(w)
    \/ \E w \in DOMAIN worker : PrintOutcome(w)
    \/ Wait
    \/ Aggregate

Spec == Init /\ [][Next]_vars

\* ------------------------------------------------------------------------
\* SyncRepositories with git commands that may never return
\* ------------------------------------------------------------------------

\* A git command of the goroutine does not return: cmd.Run, cmd.Output and
\* cmd.CombinedOutput wait for the process without a deadline, so the call
\* of CheckoutMainBranch stays where it is.
Block(w) ==
    /\ worker[w].at = "sync"
    /\ worker' = [worker EXCEPT ![w].at = "blocked"]
    /\ UNCHANGED <<root, entries, branchName, pc, repositories, results, next, wg,
                   wlog, out, ret>>
    /\ UNCHANGED <<opVars, cmdVars, dockerVars>>

\* The batches followed to their end: a root directory that can be listed,
\* the default branch asked for.
InitLive ==
    /\ Init
    /\ root = "dir"
    /\ branchName = ""

NextLive ==
    \/ \E w \in DOMAIN worker : Block(w)
    \/ Next

\* Whenever the function or a goroutine can take a step, a step is taken:
\* a runnable goroutine is run, and a git command that is running returns
\* or, for good, does not.
Fairness == WF_vars(NextLive)

SpecLive == InitLive /\ [][NextLive]_vars /\ Fairness

\* ------------------------------------------------------------------------
\* commands/sync.go: runSync, and Syncer.SyncSingleRepository which it calls
\* ------------------------------------------------------------------------

\* Largest number of repositories in the configuration.
MaxConfigured == 2

\* filepath.Base
Base(path) == path[Len(path)]

\* Mutant of syncSingleReturned: the test of Success is inverted.
syncSingleReturnedInverted(result) == IF result.Success THEN result.Error ELSE Nil

\* SyncSingleRepository from the return of CheckoutMainBranch.
syncSingleReturned(result) == IF ~result.Success THEN result.Error ELSE Nil

SyncSingleRepository(env, repoPath, branch) ==
    syncSingleReturned(
        CheckoutMainBranch(env, [Path |-> repoPath, Name |-> Base(repoPath)],
                           branch).result)

\* The --branch flag: absent from the command line, or given with a value.
FlagAbsent == "<absent>"
FlagInputs == {FlagAbsent, "", "dev"}

\* cmd.Flags().GetString("branch"): the value given, else the default the
\* flag was registered with.
FlagValue(f) == IF f = FlagAbsent THEN "main" ELSE f

\* The branch of the configuration file.
ConfigBranches == {"main", "release"}

\* The configurations with count repositories, in the given state.
ConfigsOf(st, counts) ==
    { [ state |-> st, GitBranch |-> b,
        Repositories |-> [k \in 1..n |-> [ Path |-> Join(RootDir, EntryNames[k]),
                                           Name |-> EntryNames[k] ]] ] :
      b \in ConfigBranches, n \in counts }

\* The configuration as loaded: a file that cannot be read or parsed, one
\* that Validate rejects (an empty repository list is rejected always), or
\* one that Validate accepts.
Configs ==
    ConfigsOf("unreadable", {0})
        \cup ConfigsOf("invalid", 0..MaxConfigured)
        \cup ConfigsOf("ok", 1..MaxConfigured)

\* The answers of the git process tried for a configured repository: clean
\* or with staged changes, the pull succeeding or failing on the remote.
CmdEnvs ==
    [ staged : {0, 1},
      unstaged : {0},
      symref : {Answer(128, <<>>)},
      showMain : {Answer(0, <<>>)},
      showMaster : {Answer(0, <<>>)},
      current : {Answer(0, <<"dev", "\n">>)},
      checkout : {Answer(0, <<>>)},
      pull : {Answer(0, OutUpToDate), Answer(1, OutRemote)} \X {Answer(0, OutUpToDate)},
      fetch : {Answer(0, <<>>)},
      setUpstream : {Answer(0, <<>>)},
      pullOrigin : {Answer(0, OutUpToDate)} ]

CmdIdle == [at |-> "idle", r |-> ZeroResult.Repository, err |-> Nil, count |-> 0]

InitCmd ==
    /\ InitSyncIdle
    /\ InitOpIdle
    /\ InitDockerIdle
    /\ flag \in FlagInputs
    /\ cfg \in Configs
    /\ cmdPc = "start"
    /\ cmdNext = 1 /\ cmdWg = 0 /\ mu = FALSE
    /\ successCount = 0 /\ failureCount = 0
    /\ cmdWorker = <<>> /\ cmdOut = <<>> /\ exit = <<>>

\* if branch != "" { cfg.GitBranch = branch }
Override(config, branch) ==
    IF branch # "" THEN [config EXCEPT !.GitBranch = branch] ELSE config

\* runSync up to the launch loop.  An error it returns makes Execute end
\* the process with status 1.
CmdStart ==
    /\ cmdPc = "start"
    /\ IF cfg.state = "unreadable"
       THEN /\ exit' = <<1>>
            /\ cmdPc' = "exited"
            /\ UNCHANGED <<cfg, cmdWorker, cmdOut>>
       ELSE IF cfg.state # "ok"
       THEN /\ cfg' = Override(cfg, FlagValue(flag))
            /\ exit' = <<1>>
            /\ cmdPc' = "exited"
            /\ UNCHANGED <<cmdWorker, cmdOut>>
       ELSE /\ cfg' = Override(cfg, FlagValue(flag))
            /\ cmdOut' = << <<"Starting Git repository sync for ",
                               ToString(Len(cfg.Repositories)),
                               " configured repositories">>,
                             <<"Target branch: ", Override(cfg, FlagValue(flag)).GitBranch>>,
                             <<>> >>
            /\ cmdWorker' = [i \in 1..Len(cfg.Repositories) |-> CmdIdle]
            /\ cmdPc' = "launch"
            /\ UNCHANGED exit
    /\ UNCHANGED <<flag, cmdNext, cmdWg, mu, successCount, failureCount>>
    /\ UNCHANGED <<syncVars, opVars, dockerVars>>

\* One iteration of the loop: wg.Add(1); go func(r).
CmdLaunch ==
    /\ cmdPc = "launch"
    /\ cmdNext <= Len(cfg.Repositories)
    /\ cmdWg' = cmdWg + 1
    /\ cmdWorker' = [cmdWorker EXCEPT ![cmdNext] =
                        [at |-> "start", r |-> cfg.Repositories[cmdNext],
                         err |-> Nil, count |-> 0]]
    /\ cmdNext' = cmdNext + 1
    /\ UNCHANGED <<flag, cfg, cmdPc, mu, successCount, failureCount, cmdOut, exit>>
    /\ UNCHANGED <<syncVars, opVars, dockerVars>>

\* output.Plain("  %s", r.Name)
CmdPrintName(w) ==
    /\ cmdWorker[w].at = "start"
    /\ cmdOut' = Append(cmdOut, <<"  name ", cmdWorker[w].r.Name>>)
    /\ cmdWorker' = [cmdWorker EXCEPT ![w].at = "sync"]
    /\ UNCHANGED <<flag, cfg, cmdPc, cmdNext, cmdWg, mu, successCount, failureCount,
                   exit>>
    /\ UNCHANGED <<syncVars, opVars, dockerVars>>

\* err := syncer.SyncSingleRepository(r.Path, cfg.GitBranch)
CmdSync(w) ==
    /\ cmdWorker[w].at = "sync"
    /\ \E env \in CmdEnvs :
          cmdWorker' = [cmdWorker EXCEPT
                          ![w].at = "lock",
                          ![w].err = SyncSingleRepository(env, cmdWorker[w].r.Path,
                                                          cfg.GitBranch)]
    /\ UNCHANGED <<flag, cfg, cmdPc, cmdNext, cmdWg, mu, successCount, failureCount,
                   cmdOut, exit>>
    /\ UNCHANGED <<syncVars, opVars, dockerVars>>

\* Mutant of CmdLock: the goroutine goes on without holding the mutex.
CmdLockNoMutex(w) ==
    /\ cmdWorker[w].at = "lock"
    /\ mu' = TRUE
    /\ cmdWorker' = [cmdWorker EXCEPT ![w].at = "report"]
    /\ UNCHANGED <<flag, cfg, cmdPc, cmdNext, cmdWg, successCount, failureCount,
                   cmdOut, exit>>
    /\ UNCHANGED <<syncVars, opVars, dockerVars>>

\* mu.Lock()
CmdLock(w) ==
    /\ cmdWorker[w].at = "lock"
    /\ ~mu
    /\ mu' = TRUE
    /\ cmdWorker' = [cmdWorker EXCEPT ![w].at = "report"]
    /\ UNCHANGED <<flag, cfg, cmdPc, cmdNext, cmdWg, successCount, failureCount,
                   cmdOut, exit>>
    /\ UNCHANGED <<syncVars, opVars, dockerVars>>

\* The outcome line, and the read of the counter that is to be incremented.
CmdReport(w) ==
    /\ cmdWorker[w].at = "report"
    /\ cmdOut' = Append(cmdOut,
                        IF cmdWorker[w].err # Nil
                        THEN <<"     failed ", "Failed to sync - ">> \o cmdWorker[w].err
                        ELSE <<"    ok  ", "Successfully pulled ", cfg.GitBranch,
                               " branch">>)
    /\ cmdWorker' = [cmdWorker EXCEPT
                        ![w].at = "count",
                        ![w].count = IF cmdWorker[w].err # Nil THEN failureCount
                                     ELSE successCount]
    /\ UNCHANGED <<flag, cfg, cmdPc, cmdNext, cmdWg, mu, successCount, failureCount,
                   exit>>
    /\ UNCHANGED <<syncVars, opVars, dockerVars>>

\* The write of failureCount++ or successCount++, then mu.Unlock() and the
\* deferred wg.Done().
CmdCount(w) ==
    /\ cmdWorker[w].at = "count"
    /\ IF cmdWorker[w].err # Nil
       THEN failureCount' = cmdWorker[w].count + 1 /\ UNCHANGED successCount
       ELSE successCount' = cmdWorker[w].count + 1 /\ UNCHANGED failureCount
    /\ mu' = FALSE
    /\ cmdWg' = cmdWg - 1
    /\ cmdWorker' = [cmdWorker EXCEPT ![w].at = "done"]
    /\ UNCHANGED <<flag, cfg, cmdPc, cmdNext, cmdOut, exit>>
    /\ UNCHANGED <<syncVars, opVars, dockerVars>>

\* wg.Wait() returns once the loop has ended and the counter is zero.
CmdWait ==
    /\ cmdPc = "launch"
    /\ cmdNext > Len(cfg.Repositories)
    /\ cmdWg = 0
    /\ cmdPc' = "summary"
    /\ UNCHANGED <<flag, cfg, cmdNext, cmdWg, mu, successCount, failureCount,
                   cmdWorker, cmdOut, exit>>
    /\ UNCHANGED <<syncVars, opVars, dockerVars>>

\* Mutant of ExitStatus: one synced repository is enough for status 0.
ExitStatusAnySuccess(successes, failures) ==
    IF failures = 0 \/ successes > 0 THEN 0 ELSE 1

\* The status the process ends with: os.Exit(1) when a repository failed,
\* else the return of nil.
ExitStatus(successes, failures) == IF failures = 0 THEN 0 ELSE 1

\* The final summary and the end of the process.
CmdSummary ==
    /\ cmdPc = "summary"
    /\ IF Len(cfg.Repositories) = 0
       THEN /\ cmdOut' = Append(cmdOut, <<"warning ", "No repositories configured">>)
            /\ exit' = <<0>>
       ELSE /\ cmdOut' = Append(cmdOut,
                  IF failureCount = 0
                  THEN <<"success ", "All ", ToString(successCount),
                         " repositories synced successfully!">>
                  ELSE <<"warning ", "Synced ", ToString(successCount), "/",
                         ToString(Len(cfg.Repositories)),
                         " repositories successfully. ", ToString(failureCount),
                         " failed.">>)
            /\ exit' = <<ExitStatus(successCount, failureCount)>>
    /\ cmdPc' = "exited"
    /\ UNCHANGED <<flag, cfg, cmdNext, cmdWg, mu, successCount, failureCount,
                   cmdWorker>>
    /\ UNCHANGED <<syncVars, opVars, dockerVars>>

NextCmd ==
    \/ CmdStart
    \/ CmdLaunch
    \/ \E w \in DOMAIN cmdWorker : CmdPrintName(w)
    \/ \E w \in DOMAIN cmdWorker : CmdSync(w)
    \/ \E w \in DOMAIN cmdWorker : CmdLock(w)
    \/ \E w \in DOMAIN cmdWorker : CmdReport(w)
    \/ \E w \in DOMAIN cmdWorker : CmdCount(w)
    \/ CmdWait
    \/ CmdSummary

SpecCmd == InitCmd /\ [][NextCmd]_vars

\* ------------------------------------------------------------------------
\* Single calls of the functions of operations.go, for every combination of
\* answers of the git process
\* ------------------------------------------------------------------------

OpRepo == [Path |-> Join(RootDir, "alpha"), Name |-> "alpha"]

InitOp ==
    /\ InitSyncIdle
    /\ InitCmdIdle
    /\ InitDockerIdle
    /\ opArgs = <<>>
    /\ opPc = "ready"
    /\ opEnv \in Envs
    /\ opBranch \in BranchInputs
    /\ opRet = <<>>

CallCheckoutMainBranch ==
    /\ opPc = "ready"
    /\ opPc' = "CheckoutMainBranch"
    /\ opRet' = CheckoutMainBranch(opEnv, OpRepo, opBranch)
    /\ UNCHANGED <<opEnv, opBranch, opArgs>>
    /\ UNCHANGED <<syncVars, cmdVars, dockerVars>>

CallGetDefaultBranch ==
    /\ opPc = "ready"
    /\ opPc' = "getDefaultBranch"
    /\ opRet' = getDefaultBranch(opEnv, <<>>, OpRepo.Path)
    /\ UNCHANGED <<opEnv, opBranch, opArgs>>
    /\ UNCHANGED <<syncVars, cmdVars, dockerVars>>

CallPullWithFallback ==
    /\ opPc = "ready"
    /\ opPc' = "pullWithFallback"
    /\ opRet' = pullWithFallback(opEnv, <<>>, OpRepo.Path, opBranch)
    /\ UNCHANGED <<opEnv, opBranch, opArgs>>
    /\ UNCHANGED <<syncVars, cmdVars, dockerVars>>

CallHasUncommittedChanges ==
    /\ opPc = "ready"
    /\ opPc' = "hasUncommittedChanges"
    /\ opRet' = hasUncommittedChanges(opEnv, <<>>, OpRepo.Path)
    /\ UNCHANGED <<opEnv, opBranch, opArgs>>
    /\ UNCHANGED <<syncVars, cmdVars, dockerVars>>

CallSyncSingleRepository ==
    /\ opPc = "ready"
    /\ opPc' = "SyncSingleRepository"
    /\ opRet' = [err |-> SyncSingleRepository(opEnv, OpRepo.Path, opBranch)]
    /\ UNCHANGED <<opEnv, opBranch, opArgs>>
    /\ UNCHANGED <<syncVars, cmdVars, dockerVars>>

NextOp ==
    \/ CallCheckoutMainBranch
    \/ CallSyncSingleRepository
    \/ CallHasUncommittedChanges
    \/ CallGetDefaultBranch
    \/ CallPullWithFallback

SpecOp == InitOp /\ [][NextOp]_vars

\* ------------------------------------------------------------------------
\* Single calls of handleGitError, for texts put together from fragments of
\* git output
\* ------------------------------------------------------------------------

\* Largest number of fragments in a classified text.
MaxFragments == 2

\* Three outputs of the test table of handleGitError.
SampleOverwriteCheckout ==
    <<"error: ", "Your local changes to the following files", " ",
      "would be overwritten", " by checkout">>
SampleRepoNotFound ==
    <<"fatal: ", "repository", " ", "'https://github.com/example/repo.git'", " ",
      "not found">>
SampleUnknown == <<"fatal: ", "unknown error occurred">>

\* The outputs of the test table of handleGitError.
Samples ==
    { SampleOverwriteCheckout,
      <<"Already on", " '", "main", "'">>,
      <<"error: ", "pathspec", " '", "main", "' ", "did not match", " any file",
        "(s) known to git">>,
      <<"fatal: ", "not a git repository", " (or any of the parent directories): .git">>,
      <<"fatal: could not open '.git/config': ", "Permission denied">>,
      SampleRepoNotFound,
      <<"There is ", "no tracking information", " for the current branch">>,
      <<"error: ", "Your local changes to the following files", " ",
        "would be overwritten", " by merge">>,
      SampleUnknown }

Fragments ==
    { <<"uncommitted changes">>, <<"would be overwritten">>, <<"Already on">>,
      <<" '", "main", "'">>, <<"did not match", " any file">>, <<"pathspec">>,
      <<"did not match">>, <<"not a git repository">>,
      <<"No such file or directory">>, <<"Permission denied">>,
      <<"repository", " ", "not found">>, <<"Could not read from remote">>,
      <<"no tracking information">>,
      <<"Your local changes to the following files">>, <<"fatal: ">>,
      <<"unknown error occurred">> }

RECURSIVE Concat(_)
Concat(texts) == IF texts = <<>> THEN <<>> ELSE Head(texts) \o Concat(Tail(texts))

Outputs ==
    Samples \cup
    { Concat(fs) : fs \in UNION { [1..n -> Fragments] : n \in 0..MaxFragments } }

Commands == {"checkout", "status", "pull", "clone"}

InitClassify ==
    /\ InitSyncIdle
    /\ InitCmdIdle
    /\ InitDockerIdle
    /\ opPc = "ready" /\ opEnv = <<>> /\ opBranch = "" /\ opRet = <<>>
    /\ opArgs \in [output : Outputs, command : Commands]

CallHandleGitError ==
    /\ opPc = "ready"
    /\ opPc' = "handleGitError"
    /\ opRet' = handleGitError(opArgs.output, opArgs.command)
    /\ UNCHANGED <<opEnv, opBranch, opArgs>>
    /\ UNCHANGED <<syncVars, cmdVars, dockerVars>>

NextClassify == CallHandleGitError

SpecClassify == InitClassify /\ [][NextClassify]_vars

\* ------------------------------------------------------------------------
\* Single calls of ScanDirectory, for every listing of the root directory
\* ------------------------------------------------------------------------

\* Largest number of entries of the root directory in a single call.
MaxListed == 3

InitScan ==
    /\ root \in {"missing", "file", "dir"}
    /\ \E kinds \in UNION { [1..n -> EntryKinds] : n \in 0..MaxListed } :
          /\ root # "dir" => kinds = <<>>
          /\ entries = [k \in 1..Len(kinds) |-> [name |-> EntryNames[k], kind |-> kinds[k]]]
    /\ branchName = "" /\ pc = "unused"
    /\ repositories = <<>> /\ results = <<>> /\ next = 1 /\ wg = 0
    /\ worker = <<>> /\ wlog = <<>> /\ out = <<>> /\ ret = <<>>
    /\ InitCmdIdle
    /\ InitDockerIdle
    /\ opPc = "ready" /\ opEnv = <<>> /\ opBranch = "" /\ opRet = <<>>
    /\ opArgs = <<>>

CallScanDirectory ==
    /\ opPc = "ready"
    /\ opPc' = "ScanDirectory"
    /\ opRet' = ScanDirectory(root, entries, RootDir)
    /\ UNCHANGED <<opEnv, opBranch, opArgs>>
    /\ UNCHANGED <<syncVars, cmdVars, dockerVars>>

NextScan == CallScanDirectory

SpecScan == InitScan /\ [][NextScan]_vars

\* ------------------------------------------------------------------------
\* internal/docker: Manager, ComposeConfig and the daemon checks
\* The log holds the external commands only; the messages written through
\* utils are left out.
\* ------------------------------------------------------------------------

\* Largest number of ticks a wait loop takes from its ticker before its
\* timeout expires.
MaxPolls == 2

\* NewManager("/stack")
NewManager ==
    [ dependenciesFile |-> Join(<<"/stack">>, "docker-compose.dependencies.yml"),
      servicesFile |-> Join(<<"/stack">>, "docker-compose.services.yml") ]

\* One external command, with its exit status and its captured output.
Executed(argv, code, output) == [argv |-> argv, code |-> code, out |-> output]

DockerInfo(code) == Executed(<<"docker", "info">>, code, <<>>)

\* docker compose version (the plugin) or docker-compose version (the
\* standalone program), as the machine answers it.
VersionProbe(installed, kind) ==
    Executed(IF kind = "plugin" THEN <<"docker", "compose", "version">>
             ELSE <<"docker-compose", "version">>,
             IF installed = kind THEN 0 ELSE 1, <<>>)

\* GetDockerComposeCommand, from the exit status of docker compose version.
GetDockerComposeCommand(installed) ==
    IF VersionProbe(installed, "plugin").code = 0 THEN "docker compose" ELSE "docker-compose"

\* sh -c "<compose command> -f <file> -p <project> <rest>"
ComposeLine(installed, file, rest) ==
    <<"sh", "-c", GetDockerComposeCommand(installed), "-f">> \o file
        \o <<"-p", "microservices">> \o rest

\* The log after a compose command: GetDockerComposeCommand runs its probe,
\* then the command itself runs.
Composed(log, installed, file, rest, code, output) ==
    log \o << VersionProbe(installed, "plugin"),
              Executed(ComposeLine(installed, file, rest), code, output) >>

RECURSIVE LinesFrom(_, _, _)
LinesFrom(s, cur, acc) ==
    IF s = <<>> THEN Append(acc, cur)
    ELSE IF Head(s) = "\n" THEN LinesFrom(Tail(s), <<>>, Append(acc, cur))
    ELSE LinesFrom(Tail(s), Append(cur, Head(s)), acc)

\* strings.Split(s, "\n")
SplitLines(s) == LinesFrom(s, <<>>, <<>>)

\* The answers of ps --format json: a failure, or an output of nothing, of
\* a blank line, or of one line for each container with its health.
PsAnswers ==
    { Answer(1, <<>>) } \cup
    { Answer(0, o) : o \in { <<>>,
                             <<"\n">>,
                             <<"healthy", "\n">>,
                             <<"starting", "\n">>,
                             <<"healthy", "\n", "unhealthy", "\n">>,
                             <<"running", "\n", "healthy", "\n">> } }

\* checkAllServicesHealthy, from the answer of its command.
checkAllServicesHealthy(answer) ==
    IF answer.code # 0
    THEN [healthy |-> FALSE, err |-> Wrap("failed to check service status: ", ExitText(1))]
    ELSE IF Len(answer.out) = 0
    THEN [healthy |-> FALSE, err |-> Nil]
    ELSE IF \E k \in DOMAIN SplitLines(TrimSpace(answer.out)) :
              \/ Contains(SplitLines(TrimSpace(answer.out))[k], <<"unhealthy">>)
              \/ Contains(SplitLines(TrimSpace(answer.out))[k], <<"starting">>)
    THEN [healthy |-> FALSE, err |-> Nil]
    ELSE [healthy |-> TRUE, err |-> Nil]

InitDocker ==
    /\ InitSyncIdle
    /\ InitOpIdle
    /\ flag = <<>> /\ cfg = <<>> /\ cmdPc = "unused" /\ cmdNext = 1 /\ cmdWg = 0
    /\ mu = FALSE /\ successCount = 0 /\ failureCount = 0
    /\ cmdWorker = <<>> /\ cmdOut = <<>> /\ exit = <<>>
    /\ composeInstalled \in {"plugin", "standalone", "none"}
    /\ mgrOp = "none" /\ mgrPc = "ready"
    /\ filePath = <<>> /\ ticks = 0 /\ dockerLog = <<>> /\ mgrErr = Nil

\* m.StartAll() is called; it calls m.StartDependencies().
CallStartAll ==
    /\ mgrPc = "ready"
    /\ mgrOp' = "StartAll"
    /\ mgrPc' = "CheckDockerDaemon"
    /\ UNCHANGED <<composeInstalled, filePath, ticks, dockerLog, mgrErr>>
    /\ UNCHANGED <<syncVars, opVars, cmdVars>>

\* CheckDockerDaemon: docker info; StartDockerDaemon when it fails.
CheckDockerDaemon ==
    /\ mgrPc = "CheckDockerDaemon"
    /\ \E code \in {0, 1} :
          /\ dockerLog' = Append(dockerLog, DockerInfo(code))
          /\ mgrPc' = IF code = 0 THEN "CheckDockerCompose" ELSE "StartDockerDaemon"
    /\ UNCHANGED <<composeInstalled, mgrOp, filePath, ticks, mgrErr>>
    /\ UNCHANGED <<syncVars, opVars, cmdVars>>

\* StartDockerDaemon: open -a Docker, then waitForDockerDaemon.  Its error
\* returns through CheckDockerDaemon to Manager.StartDependencies.
StartDockerDaemon ==
    /\ mgrPc = "StartDockerDaemon"
    /\ \E code \in {0, 1} :
          /\ dockerLog' = Append(dockerLog, Executed(<<"open", "-a", "Docker">>, code, <<>>))
          /\ IF code = 0
             THEN /\ mgrPc' = "waitForDockerDaemon"
                  /\ ticks' = 0
                  /\ UNCHANGED mgrErr
             ELSE /\ mgrPc' = "dependenciesReturned"
                  /\ mgrErr' = Wrap("docker daemon check failed: ",
                                    Wrap("failed to start Docker daemon: ", ExitText(1)))
                  /\ UNCHANGED ticks
    /\ UNCHANGED <<composeInstalled, mgrOp, filePath>>
    /\ UNCHANGED <<syncVars, opVars, cmdVars>>

\* waitForDockerDaemon, case <-ticker.C: docker info once more.
DaemonTick ==
    /\ mgrPc = "waitForDockerDaemon"
    /\ ticks < MaxPolls
    /\ \E code \in {0, 1} :
          /\ dockerLog' = Append(dockerLog, DockerInfo(code))
          /\ IF code = 0
             THEN mgrPc' = "CheckDockerCompose" /\ UNCHANGED ticks
             ELSE ticks' = ticks + 1 /\ UNCHANGED mgrPc
    /\ UNCHANGED <<composeInstalled, mgrOp, filePath, mgrErr>>
    /\ UNCHANGED <<syncVars, opVars, cmdVars>>

\* waitForDockerDaemon, case <-ctx.Done().
DaemonTimeout ==
    /\ mgrPc = "waitForDockerDaemon"
    /\ mgrPc' = "dependenciesReturned"
    /\ mgrErr' = Wrap("docker daemon check failed: ",
                      <<"timeout waiting for Docker daemon to start">>)
    /\ UNCHANGED <<composeInstalled, mgrOp, filePath, ticks, dockerLog>>
    /\ UNCHANGED <<syncVars, opVars, cmdVars>>

\* CheckDockerCompose, then config := NewComposeConfig(m.dependenciesFile).
CheckDockerCompose ==
    /\ mgrPc = "CheckDockerCompose"
    /\ IF composeInstalled = "plugin"
       THEN /\ dockerLog' = Append(dockerLog, VersionProbe(composeInstalled, "plugin"))
            /\ mgrPc' = "StartDependencies"
            /\ filePath' = NewManager.dependenciesFile
            /\ UNCHANGED mgrErr
       ELSE IF composeInstalled = "standalone"
       THEN /\ dockerLog' = dockerLog \o << VersionProbe(composeInstalled, "plugin"),
                                            VersionProbe(composeInstalled, "standalone") >>
            /\ mgrPc' = "StartDependencies"
            /\ filePath' = NewManager.dependenciesFile
            /\ UNCHANGED mgrErr
       ELSE /\ dockerLog' = dockerLog \o << VersionProbe(composeInstalled, "plugin"),
                                            VersionProbe(composeInstalled, "standalone") >>
            /\ mgrPc' = "dependenciesReturned"
            /\ mgrErr' = Wrap("docker compose check failed: ",
                              Wrap("docker-compose not found: ", ExitText(1)))
            /\ UNCHANGED filePath
    /\ UNCHANGED <<composeInstalled, mgrOp, ticks>>
    /\ UNCHANGED <<syncVars, opVars, cmdVars>>

\* ComposeConfig.StartDependencies up to its call of WaitForHealthChecks:
\* ValidateFile, then up -d --build.
ComposeUp ==
    /\ mgrPc = "StartDependencies"
    /\ \E exists \in BOOLEAN, code \in {0, 1} :
          IF ~exists
          THEN /\ code = 0
               /\ mgrErr' = <<"docker-compose file not found: ">> \o filePath
               /\ mgrPc' = "composeReturned"
               /\ UNCHANGED <<dockerLog, ticks>>
          ELSE /\ dockerLog' = Composed(dockerLog, composeInstalled, filePath,
                                        <<"up", "-d", "--build">>, code, <<>>)
               /\ IF code # 0
                  THEN /\ mgrErr' = Wrap("failed to start dependencies: ", ExitText(1))
                       /\ mgrPc' = "composeReturned"
                       /\ UNCHANGED ticks
                  ELSE /\ mgrPc' = "WaitForHealthChecks"
                       /\ ticks' = 0
                       /\ UNCHANGED mgrErr
    /\ UNCHANGED <<composeInstalled, mgrOp, filePath>>
    /\ UNCHANGED <<syncVars, opVars, cmdVars>>

\* Mutant of HealthTick: a poll that finds all services healthy does not
\* end the loop.
HealthTickKeepsPolling ==
    /\ mgrPc = "WaitForHealthChecks"
    /\ ticks < MaxPolls
    /\ \E answer \in PsAnswers :
          /\ dockerLog' = Composed(dockerLog, composeInstalled, filePath,
                                   <<"ps", "--format", "json">>, answer.code, answer.out)
          /\ IF checkAllServicesHealthy(answer).err # Nil
             THEN /\ mgrErr' = checkAllServicesHealthy(answer).err
                  /\ mgrPc' = "composeReturned"
                  /\ UNCHANGED ticks
             ELSE /\ ticks' = ticks + 1
                  /\ UNCHANGED <<mgrPc, mgrErr>>
    /\ UNCHANGED <<composeInstalled, mgrOp, filePath>>
    /\ UNCHANGED <<syncVars, opVars, cmdVars>>

\* WaitForHealthChecks, case <-ticker.C: one poll.  What it returns is what
\* ComposeConfig.StartDependencies returns.
HealthTick ==
    /\ mgrPc = "WaitForHealthChecks"
    /\ ticks < MaxPolls
    /\ \E answer \in PsAnswers :
          /\ dockerLog' = Composed(dockerLog, composeInstalled, filePath,
                                   <<"ps", "--format", "json">>, answer.code, answer.out)
          /\ IF checkAllServicesHealthy(answer).err # Nil
             THEN /\ mgrErr' = checkAllServicesHealthy(answer).err
                  /\ mgrPc' = "composeReturned"
                  /\ UNCHANGED ticks
             ELSE IF checkAllServicesHealthy(answer).healthy
             THEN /\ mgrErr' = Nil
                  /\ mgrPc' = "composeReturned"
                  /\ UNCHANGED ticks
             ELSE /\ ticks' = ticks + 1
                  /\ UNCHANGED <<mgrPc, mgrErr>>
    /\ UNCHANGED <<composeInstalled, mgrOp, filePath>>
    /\ UNCHANGED <<syncVars, opVars, cmdVars>>

\* WaitForHealthChecks, case <-ctx.Done(): return c.showServiceStatus().
\* A poll lasts as long as its command does, so the timeout can expire
\* after any number of ticks.
HealthTimeout ==
    /\ mgrPc = "WaitForHealthChecks"
    /\ \E code \in {0, 1} :
          /\ dockerLog' = Composed(dockerLog, composeInstalled, filePath,
                                   <<"ps">>, code, <<>>)
          /\ mgrErr' = IF code = 0 THEN Nil ELSE ExitText(1)
    /\ mgrPc' = "composeReturned"
    /\ UNCHANGED <<composeInstalled, mgrOp, filePath, ticks>>
    /\ UNCHANGED <<syncVars, opVars, cmdVars>>

\* The return of config.StartDependencies() to Manager.StartDependencies or
\* to Manager.StartServices, which wraps an error.  StartAll returns what
\* StartServices returns.
ManagerStartReturn ==
    /\ mgrPc = "composeReturned"
    /\ IF filePath = NewManager.dependenciesFile
       THEN /\ mgrErr' = IF mgrErr # Nil
                         THEN Wrap("failed to start dependencies: ", mgrErr) ELSE Nil
            /\ mgrPc' = "dependenciesReturned"
       ELSE /\ mgrErr' = IF mgrErr # Nil
                         THEN Wrap("failed to start services: ", mgrErr) ELSE Nil
            /\ mgrPc' = "returned"
    /\ UNCHANGED <<composeInstalled, mgrOp, filePath, ticks, dockerLog>>
    /\ UNCHANGED <<syncVars, opVars, cmdVars>>

\* Mutant of StartAllContinue: the services are started whatever
\* StartDependencies returned.
StartAllContinueAlways ==
    /\ mgrPc = "dependenciesReturned"
    /\ mgrPc' = "StartDependencies"
    /\ filePath' = NewManager.servicesFile
    /\ mgrErr' = Nil
    /\ UNCHANGED <<composeInstalled, mgrOp, ticks, dockerLog>>
    /\ UNCHANGED <<syncVars, opVars, cmdVars>>

\* StartAll after m.StartDependencies() returned: return its error, or call
\* m.StartServices(), which starts NewComposeConfig(m.servicesFile).
StartAllContinue ==
    /\ mgrPc = "dependenciesReturned"
    /\ IF mgrErr # Nil
       THEN /\ mgrPc' = "returned"
            /\ UNCHANGED filePath
       ELSE /\ mgrPc' = "StartDependencies"
            /\ filePath' = NewManager.servicesFile
    /\ UNCHANGED <<composeInstalled, mgrOp, ticks, dockerLog, mgrErr>>
    /\ UNCHANGED <<syncVars, opVars, cmdVars>>

\* m.Stop() is called.
CallStop ==
    /\ mgrPc = "ready"
    /\ mgrOp' = "Stop"
    /\ mgrPc' = "StopServices"
    /\ filePath' = NewManager.servicesFile
    /\ UNCHANGED <<composeInstalled, ticks, dockerLog, mgrErr>>
    /\ UNCHANGED <<syncVars, opVars, cmdVars>>

\* Mutant of StopServices: Stop returns the error of stopping the services.
StopServicesReturnsError ==
    /\ mgrPc = "StopServices"
    /\ \E code \in {0, 1} :
          /\ dockerLog' = Composed(dockerLog, composeInstalled, filePath,
                                   <<"down">>, code, <<>>)
          /\ IF code = 0
             THEN /\ mgrPc' = "StopDependencies"
                  /\ filePath' = NewManager.dependenciesFile
                  /\ UNCHANGED mgrErr
             ELSE /\ mgrPc' = "returned"
                  /\ mgrErr' = Wrap("failed to stop services: ", ExitText(1))
                  /\ UNCHANGED filePath
    /\ UNCHANGED <<composeInstalled, mgrOp, ticks>>
    /\ UNCHANGED <<syncVars, opVars, cmdVars>>

\* servicesConfig.Stop(): down; its error is only warned about.
StopServices ==
    /\ mgrPc = "StopServices"
    /\ \E code \in {0, 1} :
          dockerLog' = Composed(dockerLog, composeInstalled, filePath,
                                <<"down">>, code, <<>>)
    /\ mgrPc' = "StopDependencies"
    /\ filePath' = NewManager.dependenciesFile
    /\ UNCHANGED <<composeInstalled, mgrOp, ticks, mgrErr>>
    /\ UNCHANGED <<syncVars, opVars, cmdVars>>

\* dependenciesConfig.Stop(): down; its error is wrapped and returned.
StopDependencies ==
    /\ mgrPc = "StopDependencies"
    /\ \E code \in {0, 1} :
          /\ dockerLog' = Composed(dockerLog, composeInstalled, filePath,
                                   <<"down">>, code, <<>>)
          /\ mgrErr' = IF code = 0 THEN Nil
                       ELSE Wrap("failed to stop dependencies: ",
                                 Wrap("failed to stop services: ", ExitText(1)))
    /\ mgrPc' = "returned"
    /\ UNCHANGED <<composeInstalled, mgrOp, filePath, ticks>>
    /\ UNCHANGED <<syncVars, opVars, cmdVars>>

NextDocker ==
    \/ CallStartAll
    \/ CheckDockerDaemon
    \/ StartDockerDaemon
    \/ DaemonTick
    \/ DaemonTimeout
    \/ CheckDockerCompose
    \/ ComposeUp
    \/ HealthTick
    \/ HealthTimeout
    \/ ManagerStartReturn
    \/ StartAllContinue
    \/ CallStop
    \/ StopServices
    \/ StopDependencies

SpecDocker == InitDocker /\ [][NextDocker]_vars

\* ------------------------------------------------------------------------
\* Properties of SyncRepositories (specification Spec)
\* ------------------------------------------------------------------------

SyncReturned == pc = "done"

\* What the scan of the root directory gives, from the directory alone.
Scanned == ScanDirectory(root, entries, RootDir)

IsPull(entry) == entry.args[1] = W("pull")

\* The last git command of a log is a pull that exited with status 0.
EndsWithGoodPull(log) ==
    /\ log # <<>>
    /\ IsPull(log[Len(log)])
    /\ log[Len(log)].code = 0

\* C1: the returned SyncResult satisfies
\* SuccessCount + FailureCount = TotalRepositories = len(Results).
C1_CountsAddUp ==
    (SyncReturned /\ ret.err = Nil) =>
        /\ ret.result.SuccessCount + ret.result.FailureCount
              = ret.result.TotalRepositories
        /\ ret.result.TotalRepositories = Len(ret.result.Results)

\* A batch returned with at least one success and at least one failure.
C1_Witness ==
    /\ SyncReturned /\ ret.err = Nil
    /\ ret.result.SuccessCount >= 1
    /\ ret.result.FailureCount >= 1

\* C2: when SyncRepositories returns, Results[i].Repository is the i-th
\* repository of the scan, whatever the completion order of the workers.
C2_DiscoveryOrder ==
    (SyncReturned /\ ret.err = Nil) =>
        /\ Len(ret.result.Results) = Len(Scanned.repos)
        /\ \A i \in 1..Len(Scanned.repos) :
              ret.result.Results[i].Repository = Scanned.repos[i]

\* A returned batch of two in which the second repository had printed its
\* name and its outcome before the first printed its name.
C2_Witness ==
    /\ SyncReturned /\ ret.err = Nil
    /\ Len(repositories) = 2
    /\ Len(out) = 6
    /\ out[3] = <<"  name ", repositories[2].Name>>
    /\ out[4][1] \in {"     ok ", "     failed "}
    /\ out[5] = <<"  name ", repositories[1].Name>>
    /\ ret.result.Results[1].Success # ret.result.Results[2].Success

\* C3: when the scan succeeds, SyncRepositories returns a nil error and one
\* outcome per discovered repository, and the Success flag of repository j
\* is decided by the git commands run in repository j alone.
C3_FailuresContained ==
    (SyncReturned /\ Scanned.err = Nil) =>
        /\ ret.err = Nil
        /\ ~ret.result.isNil
        /\ Len(ret.result.Results) = Len(Scanned.repos)
        /\ \A j \in 1..Len(Scanned.repos) :
              /\ ret.result.Results[j].Success = EndsWithGoodPull(wlog[j])
              /\ \A k \in 1..Len(wlog[j]) : wlog[j][k].dir = Scanned.repos[j].Path

\* A returned batch in which one repository failed in its pull and a
\* sibling succeeded.
C3_Witness ==
    /\ SyncReturned /\ ret.err = Nil
    /\ \E i, j \in 1..Len(repositories) :
          /\ ret.result.Results[i].Success
          /\ ~ret.result.Results[j].Success
          /\ Contains(ret.result.Results[j].Error, <<"could not read from remote">>)

\* C5: when the scan fails, SyncRepositories returns a non-nil error and no
\* result; no worker is ever launched, no git command invoked and no line
\* printed.
C5_ScanFailureAborts ==
    root # "dir" =>
        /\ worker = <<>> /\ wlog = <<>> /\ wg = 0 /\ out = <<>>
        /\ SyncReturned => (ret.err # Nil /\ ret.result.isNil)

\* SyncRepositories returned for a root directory that does not exist.
C5_Witness ==
    /\ SyncReturned
    /\ root = "missing"
    /\ Contains(ret.err, <<"failed to scan directory: ">>)

\* C6: when the scan finds no repository, SyncRepositories returns a nil
\* error and an all-zero result with no outcome, launches no worker and
\* prints no "Found" line.
C6_EmptyBatch ==
    (root = "dir" /\ \A k \in 1..Len(entries) : entries[k].kind # "repo") =>
        /\ worker = <<>> /\ wlog = <<>> /\ wg = 0 /\ out = <<>>
        /\ SyncReturned =>
              /\ ret.err = Nil
              /\ ret.result = SyncResult(0, 0, 0, <<>>)

\* SyncRepositories returned for a root holding a plain file and a
\* directory without .git.
C6_Witness ==
    /\ SyncReturned
    /\ root = "dir"
    /\ Len(entries) = 2
    /\ \A k \in 1..Len(entries) : entries[k].kind # "repo"
    /\ ret.err = Nil

\* The entries of a listing that are directories holding .git, in listing
\* order.
Qualifying(listing) == SelectSeq(listing, LAMBDA e : e.kind = "repo")

\* The scan gave one Repository per qualifying entry and nothing else, and
\* the SyncResult returned counts them.
ScanMatchesListing ==
    /\ Scanned.err = Nil
    /\ Len(Scanned.repos) = Len(Qualifying(entries))
    /\ \A i \in 1..Len(Qualifying(entries)) :
          Scanned.repos[i] = [ Path |-> RootDir \o <<"/", Qualifying(entries)[i].name>>,
                               Name |-> Qualifying(entries)[i].name ]
    /\ repositories = Scanned.repos
    /\ SyncReturned =>
          /\ ret.err = Nil
          /\ ret.result.TotalRepositories = Len(Qualifying(entries))

\* C17 as stated: for every existing root, ScanDirectory returns a nil error
\* and exactly one Repository (Path = root/name, Name = name) per immediate
\* entry that is a directory directly containing .git, and SyncRepositories
\* reports their number as TotalRepositories.
C17_ExistingRoot ==
    (root # "missing" /\ pc # "scan") => ScanMatchesListing

\* C17 as amended: the same, for a root that is a directory that can be
\* listed.
C17_ListedRoot ==
    (root = "dir" /\ pc # "scan") => ScanMatchesListing

\* SyncRepositories returned for a root holding a repository and an entry
\* that is none.
C17_Witness ==
    /\ SyncReturned /\ root = "dir"
    /\ Len(entries) = 2
    /\ entries[1].kind = "repo"
    /\ entries[2].kind # "repo"
    /\ ret.err = Nil
    /\ ret.result.TotalRepositories = 1

\* C20: the result slots are read and the counts computed only after every
\* worker has finished: whenever SyncRepositories is past the barrier, every
\* worker has written its slot and ended, and what is returned is computed
\* from what the workers wrote.
C20_AggregateAfterWorkers ==
    pc \in {"summary", "done"} =>
        /\ wg = 0
        /\ \A w \in DOMAIN worker :
              /\ worker[w].at = "done"
              /\ results[w] = worker[w].result
        /\ (SyncReturned /\ worker # <<>>) =>
              /\ ret.result.Results = [w \in DOMAIN worker |-> worker[w].result]
              /\ ret.result.SuccessCount
                    = Cardinality({w \in DOMAIN worker : worker[w].result.Success})
              /\ ret.result.FailureCount
                    = Cardinality({w \in DOMAIN worker : ~worker[w].result.Success})

\* The barrier was passed, and the summary not yet computed, in a batch of
\* two whose workers both ended.
C20_Witness ==
    /\ pc = "summary"
    /\ Len(worker) = 2
    /\ \A w \in DOMAIN worker : worker[w].at = "done"
    /\ results[1].Success /\ ~results[2].Success

\* How far a goroutine of processRepositoriesParallel has come.
Rank(at) ==
    CASE at = "idle" -> 0
      [] at = "start" -> 1
      [] at = "sync" -> 2
      [] at = "write" -> 3
      [] at = "print" -> 4
      [] at = "done" -> 5

\* The goroutine launched for the w-th repository holds index w and that
\* repository, and past the barrier there is one ended goroutine per
\* repository of the scan.
OneWorkerPerRepository ==
    /\ \A w \in DOMAIN worker :
          worker[w].at # "idle" =>
              /\ worker[w].index = w
              /\ worker[w].repository = repositories[w]
    /\ pc \in {"summary", "done"} =>
          /\ Len(worker) = Len(repositories)
          /\ \A w \in DOMAIN worker : worker[w].at = "done"

\* In one step a goroutine advances by at most one position and never goes
\* back; its command log changes only in its single call of
\* CheckoutMainBranch; slot w changes only in the write of goroutine w, from
\* the zero value to that goroutine's result.
OneWritePerSlot ==
    \A w \in DOMAIN worker :
        /\ Rank(worker'[w].at) \in {Rank(worker[w].at), Rank(worker[w].at) + 1}
        /\ wlog'[w] # wlog[w] =>
              /\ worker[w].at = "sync" /\ worker'[w].at = "write"
              /\ wlog[w] = <<>>
        /\ results'[w] # results[w] =>
              /\ worker[w].at = "write" /\ worker'[w].at = "print"
              /\ worker[w].index = w
              /\ results[w] = ZeroResult
              /\ results'[w] = worker[w].result
              /\ \A v \in DOMAIN worker \ {w} : results'[v] = results[v]

\* C21: one worker is launched per discovered repository, it runs
\* CheckoutMainBranch once and writes once, to the slot at its own discovery
\* index; no slot is written by two workers or written a second time.
C21_OneWorkerOneWrite ==
    []OneWorkerPerRepository /\ [][OneWritePerSlot]_vars

\* The second goroutine of a batch of two has written its slot and ended
\* while the first is about to write its own.
C21_Witness ==
    /\ Len(worker) = 2
    /\ worker[2].at = "done" /\ results[2] = worker[2].result
    /\ worker[1].at = "write" /\ results[1] = ZeroResult
    /\ worker[1].result # ZeroResult

\* ------------------------------------------------------------------------
\* Properties of SyncRepositories with commands that may not return
\* (specification SpecLive)
\* ------------------------------------------------------------------------

SomeBlocked == \E w \in DOMAIN worker : worker[w].at = "blocked"

AllEnded == \A w \in DOMAIN worker : worker[w].at = "done"

\* C31: there is no timeout: while the git command of one worker does not
\* return, SyncRepositories neither aggregates nor returns, whatever the
\* other workers have done; and when every git command returns, every
\* worker ends and SyncRepositories returns.
C31_NoTimeout ==
    /\ [](SomeBlocked => (pc \notin {"summary", "done"} /\ ret = <<>>))
    /\ ([]~SomeBlocked) => <>(SyncReturned /\ AllEnded)

\* In a batch of two the first goroutine has ended, the command of the
\* second does not return, and the loop has ended: the barrier holds.
C31_Witness ==
    /\ Len(worker) = 2
    /\ worker[1].at = "done"
    /\ worker[2].at = "blocked"
    /\ next > Len(repositories)
    /\ pc = "launch"

\* ------------------------------------------------------------------------
\* Properties of ScanDirectory (specification SpecScan)
\* ------------------------------------------------------------------------

\* C18: ScanDirectory on a root that does not exist returns a not-found
\* error and no repositories.
C18_MissingRoot ==
    (opPc = "ScanDirectory" /\ root = "missing") =>
        /\ opRet.err # Nil
        /\ Contains(opRet.err, <<": no such file or directory">>)
        /\ opRet.repos = <<>>

\* ScanDirectory returned for a root that does not exist.
C18_Witness ==
    /\ opPc = "ScanDirectory"
    /\ root = "missing"
    /\ opRet.err = <<"stat ">> \o RootDir \o <<": no such file or directory">>

\* ------------------------------------------------------------------------
\* Properties of the sync command (specification SpecCmd)
\* ------------------------------------------------------------------------

\* C16: the sync command ends with status 0 when every repository synced
\* and with status 1 when at least one failed, and the status is decided
\* only after every worker has finished.
C16_ExitStatus ==
    (cfg.state = "ok" /\ cmdPc \in {"summary", "exited"}) =>
        /\ Len(cmdWorker) = Len(cfg.Repositories)
        /\ cmdWg = 0
        /\ \A w \in DOMAIN cmdWorker : cmdWorker[w].at = "done"
        /\ exit # <<>> =>
              exit = IF \A w \in DOMAIN cmdWorker : cmdWorker[w].err = Nil
                     THEN <<0>> ELSE <<1>>

\* The command ended with status 1 after one of its two repositories
\* synced and the other failed.
C16_Witness ==
    /\ cmdPc = "exited"
    /\ exit = <<1>>
    /\ Len(cmdWorker) = 2
    /\ cmdWorker[1].err = Nil
    /\ cmdWorker[2].err # Nil
    /\ \A w \in DOMAIN cmdWorker : cmdWorker[w].at = "done"

\* ------------------------------------------------------------------------
\* Properties of the functions of operations.go (specification SpecOp)
\* ------------------------------------------------------------------------

Count(log, P(_)) == Cardinality({k \in 1..Len(log) : P(log[k])})

IsCheckout(entry) == entry.args[1] = W("checkout")
IsFetch(entry) == entry.args = ArgsFetch
IsSetUpstream(entry) ==
    entry.args[1] = W("branch") /\ entry.args # ArgsShowCurrent
IsSyncCommand(entry) ==
    IsCheckout(entry) \/ IsFetch(entry) \/ IsSetUpstream(entry) \/ IsPull(entry)

\* The working copy reports differences: the staged check exits 1, or it
\* exits 0 and the unstaged check exits 1.
Dirty(env) == env.staged = 1 \/ (env.staged = 0 /\ env.unstaged = 1)
Clean(env) == env.staged = 0 /\ env.unstaged = 0

\* C4: a working copy with staged or unstaged differences yields the
\* failed outcome for uncommitted changes, and no checkout, fetch,
\* set-upstream or pull is invoked.
C4_DirtyShortCircuit ==
    (opPc = "CheckoutMainBranch" /\ Dirty(opEnv)) =>
        /\ ~opRet.result.Success
        /\ opRet.result.Error = <<"repository has uncommitted changes">>
        /\ Contains(opRet.result.Message, <<"uncommitted changes">>)
        /\ \A k \in 1..Len(opRet.log) : ~IsSyncCommand(opRet.log[k])

\* Only the unstaged check reports differences, in a working copy whose
\* checkout and pull would have succeeded.
C4_Witness ==
    /\ opPc = "CheckoutMainBranch"
    /\ opEnv.staged = 0 /\ opEnv.unstaged = 1
    /\ opEnv.current.code = 0 /\ opEnv.checkout.code = 0
    /\ opEnv.pull[1].code = 0
    /\ Len(opRet.log) = 2

NoTracking(answer) ==
    answer.code # 0 /\ Contains(answer.out, <<"no tracking information">>)

\* C7: in pullWithFallback the first command is a plain pull; when it
\* succeeds nothing else is run; when it fails with a text other than "no
\* tracking information" that failure is returned with no further command;
\* fetch, set-upstream and a second pull follow only a first pull that
\* failed with "no tracking information".
C7_FallbackOnlyOnNoTracking ==
    opPc = "pullWithFallback" =>
        /\ opRet.log[1].args = ArgsPull
        /\ opEnv.pull[1].code = 0 => (Len(opRet.log) = 1 /\ opRet.err = Nil)
        /\ (opEnv.pull[1].code # 0 /\ ~NoTracking(opEnv.pull[1])) =>
              /\ Len(opRet.log) = 1
              /\ opRet.err = <<"git command failed: ">> \o ExitText(opEnv.pull[1].code)
                               \o <<" (output: ">> \o opEnv.pull[1].out \o <<")">>
        /\ Len(opRet.log) > 1 => NoTracking(opEnv.pull[1])

\* The first pull failed on the remote although fetch, set-upstream and a
\* second pull would all have succeeded.
C7_Witness ==
    /\ opPc = "pullWithFallback"
    /\ opEnv.pull[1] = Answer(1, OutRemote)
    /\ opEnv.fetch.code = 0 /\ opEnv.setUpstream.code = 0
    /\ opEnv.pull[2].code = 0
    /\ opRet.err # Nil

\* C8: one execution of CheckoutMainBranch invokes pull at most twice,
\* fetch, set-upstream and checkout at most once each; a retried pull that
\* fails, even with "no tracking information", is the reported failure and
\* the last command.
C8_SingleFallbackRound ==
    opPc = "CheckoutMainBranch" =>
        /\ Count(opRet.log, IsPull) <= 2
        /\ Count(opRet.log, IsFetch) <= 1
        /\ Count(opRet.log, IsSetUpstream) <= 1
        /\ Count(opRet.log, IsCheckout) <= 1
        /\ Count(opRet.log, IsPull) = 2 =>
              /\ IsPull(opRet.log[Len(opRet.log)])
              /\ opRet.result.Success = (opRet.log[Len(opRet.log)].code = 0)

\* The retried plain pull failed again with "no tracking information".
C8_Witness ==
    /\ opPc = "CheckoutMainBranch"
    /\ Count(opRet.log, IsPull) = 2
    /\ opEnv.pull[1] = Answer(1, OutNoTracking)
    /\ opEnv.setUpstream.code = 0
    /\ opEnv.pull[2] = Answer(1, OutNoTracking)
    /\ ~opRet.result.Success
    /\ Contains(opRet.result.Error, <<"failed to pull after setting upstream: ">>)

\* The last path segment of the symbolic-ref output (which ends in a
\* newline).
LastSegment(text) == text[Len(text) - 1]

\* Default-branch resolution, first success wins.
ResolvedDefault(env) ==
    IF env.symref.code = 0 THEN LastSegment(env.symref.out)
    ELSE IF env.showMain.code = 0 THEN "main"
    ELSE IF env.showMaster.code = 0 THEN "master"
    ELSE "main"

ExpectedTarget(branch, env) ==
    IF branch # "" /\ branch # "main" THEN branch ELSE ResolvedDefault(env)

\* C9: the target branch is the requested branch when that is neither
\* empty nor "main", and the resolved default branch otherwise; a checkout,
\* a set-upstream and the success message all name that target.
C9_TargetBranch ==
    (opPc = "CheckoutMainBranch" /\ Clean(opEnv)) =>
        /\ opRet.target = ExpectedTarget(opBranch, opEnv)
        /\ \A k \in 1..Len(opRet.log) :
              /\ IsCheckout(opRet.log[k]) =>
                    opRet.log[k].args = ArgsCheckout(ExpectedTarget(opBranch, opEnv))
              /\ IsSetUpstream(opRet.log[k]) =>
                    opRet.log[k].args = ArgsSetUpstream(ExpectedTarget(opBranch, opEnv))
        /\ opRet.result.Success =>
              opRet.result.Message[2] = ExpectedTarget(opBranch, opEnv)

\* "main" was requested in a working copy whose default resolves to
\* "master": master is checked out.
C9_Witness ==
    /\ opPc = "CheckoutMainBranch"
    /\ opBranch = "main"
    /\ opRet.target = "master"
    /\ opRet.result.Success
    /\ \E k \in 1..Len(opRet.log) : opRet.log[k].args = ArgsCheckout("master")

\* C10: getDefaultBranch never returns an error; its result is the last
\* segment of the symbolic-ref output when that query succeeds (no show-ref
\* probe is run), else "main" when refs/heads/main exists (the master probe
\* is not run), else "master" when refs/heads/master exists, else "main".
C10_DefaultBranch ==
    opPc = "getDefaultBranch" =>
        /\ opRet.err = Nil
        /\ opRet.val = ResolvedDefault(opEnv)
        /\ [k \in 1..Len(opRet.log) |-> opRet.log[k].args]
              = IF opEnv.symref.code = 0 THEN <<ArgsSymbolicRef>>
                ELSE IF opEnv.showMain.code = 0
                THEN <<ArgsSymbolicRef, ArgsShowRef("main")>>
                ELSE <<ArgsSymbolicRef, ArgsShowRef("main"), ArgsShowRef("master")>>

\* The symbolic-ref query and the main probe failed, the master probe
\* succeeded.
C10_Witness ==
    /\ opPc = "getDefaultBranch"
    /\ opEnv.symref.code # 0 /\ opEnv.showMain.code # 0 /\ opEnv.showMaster.code = 0
    /\ opRet.val = "master"
    /\ Len(opRet.log) = 3

\* C11: every OperationResult returned by CheckoutMainBranch refers to the
\* input repository, has a non-empty Message, and has a nil Error exactly
\* when Success is true.
C11_ResultContract ==
    opPc = "CheckoutMainBranch" =>
        /\ opRet.result.Repository = OpRepo
        /\ opRet.result.Message # <<>>
        /\ (opRet.result.Error = Nil) <=> opRet.result.Success

\* A clean working copy whose checkout failed: the outcome is a failure
\* that carries the checkout error.
C11_Witness ==
    /\ opPc = "CheckoutMainBranch"
    /\ Clean(opEnv)
    /\ opEnv.checkout.code # 0
    /\ IsCheckout(opRet.log[Len(opRet.log)])
    /\ ~opRet.result.Success
    /\ opRet.result.Error # Nil

\* The last git command of a log failed and satisfies P.
EndsWithFailed(log, P(_)) ==
    /\ log # <<>>
    /\ P(log[Len(log)])
    /\ log[Len(log)].code # 0

\* C12: when the checkout or the pull fails, the Message of the outcome is
\* the classifier's message for the raw output of the failed command; a
\* pull that cannot reach the remote gives Success = false, a non-nil Error
\* and a Message containing "not accessible or not found", after a checkout
\* as well as on the target branch.
C12_ClassifiedMessage ==
    opPc = "CheckoutMainBranch" =>
        /\ EndsWithFailed(opRet.log, IsCheckout) =>
              opRet.result.Message = handleGitError(opEnv.checkout.out, "checkout").msg
        /\ (EndsWithFailed(opRet.log, IsPull) /\ Count(opRet.log, IsPull) = 1) =>
              opRet.result.Message = handleGitError(opEnv.pull[1].out, "pull").msg
        /\ ( /\ EndsWithFailed(opRet.log, IsPull)
             /\ Count(opRet.log, IsPull) = 1
             /\ opEnv.pull[1] = Answer(1, OutRemote) ) =>
              /\ ~opRet.result.Success
              /\ opRet.result.Error # Nil
              /\ Contains(opRet.result.Message, <<"not accessible or not found">>)

\* C19: the message of a successful outcome is "Checked out '<target>' and
\* pulled latest changes" exactly when a checkout was run, which is when the
\* current branch differed from the target, and "Already on '<target>',
\* pulled latest changes" exactly when none was run.
C19_SuccessMessage ==
    (opPc = "CheckoutMainBranch" /\ opRet.result.Success) =>
        /\ (opRet.result.Message
               = <<"Checked out '", opRet.target, "' and pulled latest changes">>)
              <=> Count(opRet.log, IsCheckout) = 1
        /\ (opRet.result.Message
               = <<"Already on '", opRet.target, "', pulled latest changes">>)
              <=> Count(opRet.log, IsCheckout) = 0
        /\ (Count(opRet.log, IsCheckout) = 1)
              <=> (BranchName(TrimSpace(opEnv.current.out)) # opRet.target)

\* A working copy already on the target branch was pulled with success.
C19_Witness ==
    /\ opPc = "CheckoutMainBranch"
    /\ opRet.result.Success
    /\ opRet.target = "main"
    /\ opEnv.current = Answer(0, <<"main", "\n">>)
    /\ Count(opRet.log, IsCheckout) = 0
    /\ opRet.result.Message = <<"Already on '", "main", "', pulled latest changes">>

\* ------------------------------------------------------------------------
\* Properties of handleGitError (specification SpecClassify)
\* ------------------------------------------------------------------------

\* The condition of rule i of the classifier on a text, letter case ignored.
RuleHolds(i, text) ==
    CASE i = 1 -> \/ Contains(ToLower(text), <<"uncommitted changes">>)
                  \/ Contains(ToLower(text), <<"would be overwritten">>)
      [] i = 2 -> /\ Contains(ToLower(text), <<"already on">>)
                  /\ Contains(ToLower(text), <<BranchSentinel>>)
      [] i = 3 -> \/ Contains(ToLower(text), <<"did not match", " any file">>)
                  \/ /\ Contains(ToLower(text), <<"pathspec">>)
                     /\ Contains(ToLower(text), <<"did not match">>)
      [] i = 4 -> Contains(ToLower(text), <<"not a git repository">>)
      [] i = 5 -> Contains(ToLower(text), <<"no such file or directory">>)
      [] i = 6 -> Contains(ToLower(text), <<"permission denied">>)
      [] i = 7 -> \/ Contains(ToLower(text), <<"repository", " ", "not found">>)
                  \/ Contains(ToLower(text), <<"could not read from remote">>)
      [] i = 8 -> Contains(ToLower(text), <<"no tracking information">>)
      [] i = 9 -> Contains(ToLower(text),
                           <<"your local changes to the following files">>)
      [] OTHER -> TRUE

RuleKind ==
    <<"UncommittedChanges", "AlreadyCurrent", "BranchNotFound", "NotARepository",
      "PathNotFound", "PermissionDenied", "RemoteInaccessible", "NoTrackingBranch",
      "UncommittedChanges", "CommandFailed">>

\* The lowest-numbered rule whose condition holds.
FirstRule(text) ==
    CHOOSE i \in 1..10 : RuleHolds(i, text) /\ \A j \in 1..(i - 1) : ~RuleHolds(j, text)

C15_QuotedUrlIsRemoteInaccessible ==
    ( /\ opPc = "handleGitError"
      /\ opArgs.output = SampleRepoNotFound
      /\ opArgs.command = "clone" ) =>
        /\ opRet.err # Nil
        /\ Contains(opRet.err, <<"not found">>)
        /\ Contains(opRet.msg, <<"Remote repository ", "not accessible or not found">>)

\* The phase of CheckoutMainBranch a git command belongs to.
Phase(entry) ==
    CASE entry.args \in {ArgsDiffCached, ArgsDiff} -> 1
      [] entry.args[1] \in {W("symbolic-ref"), W("show-ref")} -> 2
      [] entry.args = ArgsShowCurrent -> 3
      [] IsCheckout(entry) -> 4
      [] OTHER -> 5

\* Some command of the log belongs to phase p or a later one.
Reached(log, p) == \E k \in 1..Len(log) : Phase(log[k]) >= p

\* C22: the commands of one CheckoutMainBranch run in the order guard,
\* default-branch resolution, current-branch read, checkout, pull; a command
\* of a later phase is invoked only when every earlier phase ended without
\* failure; a failed checkout is the last command and the outcome is failed.
C22_PhaseOrder ==
    opPc = "CheckoutMainBranch" =>
        /\ opRet.log[1].args = ArgsDiffCached
        /\ \A k \in 1..(Len(opRet.log) - 1) :
              Phase(opRet.log[k]) <= Phase(opRet.log[k + 1])
        /\ Reached(opRet.log, 2) =>
              /\ Clean(opEnv)
              /\ opRet.log[2].args = ArgsDiff
              /\ opRet.log[3].args = ArgsSymbolicRef
        /\ Reached(opRet.log, 3) => Reached(opRet.log, 2)
        /\ Reached(opRet.log, 4) =>
              /\ opEnv.current.code = 0
              /\ Count(opRet.log, LAMBDA e : e.args = ArgsShowCurrent) = 1
        /\ Reached(opRet.log, 5) =>
              /\ opEnv.current.code = 0
              /\ \A k \in 1..Len(opRet.log) :
                    IsCheckout(opRet.log[k]) => opRet.log[k].code = 0
        /\ \A k \in 1..Len(opRet.log) :
              (IsCheckout(opRet.log[k]) /\ opRet.log[k].code # 0) =>
                  /\ k = Len(opRet.log)
                  /\ ~opRet.result.Success
                  /\ Count(opRet.log, IsFetch) = 0
                  /\ Count(opRet.log, IsPull) = 0

\* The checkout failed in a working copy whose pull would have succeeded.
C22_Witness ==
    /\ opPc = "CheckoutMainBranch"
    /\ opEnv.checkout.code # 0
    /\ opEnv.pull[1].code = 0
    /\ EndsWithFailed(opRet.log, IsCheckout)
    /\ Contains(opRet.result.Error, <<"failed to checkout branch '">>)

\* The command lines of a log, in order.
ArgsOf(log) == [k \in 1..Len(log) |-> log[k].args]

\* C23: after a first plain pull that failed with "no tracking
\* information" the recovery runs fetch, then set-upstream of the target to
\* origin/<target>, then, the upstream being set, a second plain pull, and
\* the pull operation succeeds exactly when that second pull succeeds.
C23_RecoveryOrder ==
    (opPc = "pullWithFallback" /\ NoTracking(opEnv.pull[1])) =>
        /\ Len(opRet.log) >= 2
        /\ opRet.log[1].args = ArgsPull
        /\ opRet.log[2].args = ArgsFetch
        /\ opEnv.fetch.code = 0 =>
              /\ Len(opRet.log) >= 3
              /\ opRet.log[3].args = ArgsSetUpstream(opBranch)
        /\ (opEnv.fetch.code = 0 /\ opEnv.setUpstream.code = 0) =>
              /\ ArgsOf(opRet.log)
                    = <<ArgsPull, ArgsFetch, ArgsSetUpstream(opBranch), ArgsPull>>
              /\ (opRet.err = Nil) <=> (opEnv.pull[2].code = 0)

\* The recovery ran to its end: fetch, set-upstream and the second pull all
\* succeeded after a first pull without tracking information.
C23_Witness ==
    /\ opPc = "pullWithFallback"
    /\ opBranch = "dev"
    /\ NoTracking(opEnv.pull[1])
    /\ opEnv.fetch.code = 0 /\ opEnv.setUpstream.code = 0
    /\ opEnv.pull[2].code = 0
    /\ Len(opRet.log) = 4
    /\ opRet.err = Nil

\* C24: in the recovery, when set-upstream fails, "pull origin <target>" is
\* run instead of the plain pull, which is not run a second time; the pull
\* operation succeeds exactly when the explicit pull succeeds, and the
\* failure of set-upstream is not reported.
C24_ExplicitPull ==
    ( /\ opPc = "pullWithFallback"
      /\ NoTracking(opEnv.pull[1])
      /\ opEnv.fetch.code = 0
      /\ opEnv.setUpstream.code # 0 ) =>
        /\ ArgsOf(opRet.log)
              = <<ArgsPull, ArgsFetch, ArgsSetUpstream(opBranch), ArgsPullOrigin(opBranch)>>
        /\ (opRet.err = Nil) <=> (opEnv.pullOrigin.code = 0)
        /\ opRet.err # Nil =>
              /\ ~Contains(opRet.err, opEnv.setUpstream.out)
              /\ Contains(opRet.err, <<"failed to pull from origin/", opBranch, ": ">>)

\* Set-upstream failed and the explicit pull succeeded.
C24_Witness ==
    /\ opPc = "pullWithFallback"
    /\ NoTracking(opEnv.pull[1])
    /\ opEnv.fetch.code = 0
    /\ opEnv.setUpstream.code # 0
    /\ opEnv.pullOrigin.code = 0
    /\ opEnv.pull[2].code # 0
    /\ opRet.err = Nil

\* A command of the recovery failed for good: the fetch, the retried plain
\* pull, or the explicit pull.
ResidualFailure(env) ==
    \/ env.fetch.code # 0
    \/ env.fetch.code = 0 /\ env.setUpstream.code = 0 /\ env.pull[2].code # 0
    \/ env.fetch.code = 0 /\ env.setUpstream.code # 0 /\ env.pullOrigin.code # 0

\* C25: a failure left after the recovery fails the whole operation: when
\* the fetch fails (nothing is run after it), or the retried plain pull
\* fails, or the explicit pull fails, pullWithFallback returns an error and
\* CheckoutMainBranch returns Success = false.
C25_ResidualFailure ==
    /\ ( /\ opPc = "pullWithFallback"
         /\ NoTracking(opEnv.pull[1])
         /\ ResidualFailure(opEnv) ) =>
          /\ opRet.err # Nil
          /\ opRet.log[Len(opRet.log)].code # 0
          /\ opEnv.fetch.code # 0 => ArgsOf(opRet.log) = <<ArgsPull, ArgsFetch>>
    /\ ( /\ opPc = "CheckoutMainBranch"
         /\ Count(opRet.log, IsPull) >= 1
         /\ NoTracking(opEnv.pull[1])
         /\ ResidualFailure(opEnv) ) =>
          /\ ~opRet.result.Success
          /\ Contains(opRet.result.Error, <<"failed to pull latest changes: ">>)
          /\ opEnv.fetch.code # 0 => IsFetch(opRet.log[Len(opRet.log)])

\* CheckoutMainBranch failed on the explicit pull, the last command of the
\* recovery.
C25_Witness ==
    /\ opPc = "CheckoutMainBranch"
    /\ NoTracking(opEnv.pull[1])
    /\ opEnv.fetch.code = 0 /\ opEnv.setUpstream.code # 0
    /\ opEnv.pullOrigin.code # 0
    /\ opRet.log[Len(opRet.log)].args = ArgsPullOrigin(opRet.target)
    /\ ~opRet.result.Success

\* C26: when the read of the current branch fails, CheckoutMainBranch ends
\* in a failure of kind NotARepository, that is with the message of that
\* kind, and neither checkout nor pull is invoked.
C26_CurrentReadFailure ==
    (opPc = "CheckoutMainBranch" /\ Clean(opEnv) /\ opEnv.current.code # 0) =>
        /\ ~opRet.result.Success
        /\ opRet.result.Message = KindMessage("NotARepository")
        /\ opRet.log[Len(opRet.log)].args = ArgsShowCurrent
        /\ Count(opRet.log, IsCheckout) = 0
        /\ Count(opRet.log, IsPull) = 0

\* The command that follows the read of the current branch.
AfterCurrentRead(log) ==
    log[1 + CHOOSE k \in 1..Len(log) : log[k].args = ArgsShowCurrent].args

\* C27: the checkout of the target is invoked once when the trimmed current
\* branch differs from the target and never when they are equal; a working
\* copy already on the target goes from the read of the current branch
\* straight to the pull.
C27_CheckoutOnlyWhenNeeded ==
    (opPc = "CheckoutMainBranch" /\ Clean(opEnv) /\ opEnv.current.code = 0) =>
        IF BranchName(TrimSpace(opEnv.current.out)) # opRet.target
        THEN /\ Count(opRet.log, IsCheckout) = 1
             /\ AfterCurrentRead(opRet.log) = ArgsCheckout(opRet.target)
        ELSE /\ Count(opRet.log, IsCheckout) = 0
             /\ AfterCurrentRead(opRet.log) = ArgsPull

\* A working copy on dev, asked for dev, whose pull then failed on the
\* remote: no checkout was run.
C27_Witness ==
    /\ opPc = "CheckoutMainBranch"
    /\ opBranch = "dev"
    /\ opEnv.current = Answer(0, <<"dev", "\n">>)
    /\ opEnv.checkout.code # 0
    /\ opRet.target = "dev"
    /\ Count(opRet.log, IsCheckout) = 0
    /\ EndsWithFailed(opRet.log, IsPull)

\* A diff check could not tell: the first check that did not exit with
\* status 0 exited with a status other than 1, or could not be launched.
GuardCannotRun(env) ==
    \/ env.staged \notin {0, 1}
    \/ env.staged = 0 /\ env.unstaged \notin {0, 1}

\* C28: hasUncommittedChanges returns (true, nil) exactly when the staged
\* check exits 1, or exits 0 and the unstaged check exits 1; (false, nil)
\* exactly when both exit 0; and an error when the first check that does not
\* exit 0 exits with another status than 1 or cannot be launched.
C28_GuardResult ==
    opPc = "hasUncommittedChanges" =>
        /\ (opRet.val /\ opRet.err = Nil) <=> Dirty(opEnv)
        /\ (~opRet.val /\ opRet.err = Nil) <=> Clean(opEnv)
        /\ (opRet.err # Nil) <=> GuardCannotRun(opEnv)
        /\ ArgsOf(opRet.log)
              = IF opEnv.staged = 0 THEN <<ArgsDiffCached, ArgsDiff>>
                ELSE <<ArgsDiffCached>>

\* The staged check exited with status 128: an error, whatever the unstaged
\* check would have said.
C28_Witness ==
    /\ opPc = "hasUncommittedChanges"
    /\ opEnv.staged = 128
    /\ opEnv.unstaged = 1
    /\ ~opRet.val
    /\ Contains(opRet.err, <<"failed to check staged changes: ">>)

\* C34: CheckoutMainBranch returns Success = true only when both diff
\* checks exited 0, the read of the current branch succeeded, the working
\* copy was on the target or a checkout of the target exited 0, and the
\* last git command was a pull, plain or explicit, that exited 0.
C34_SuccessOnlyAfterGoodPull ==
    (opPc = "CheckoutMainBranch" /\ opRet.result.Success) =>
        /\ Clean(opEnv)
        /\ opRet.log[1].args = ArgsDiffCached /\ opRet.log[1].code = 0
        /\ opRet.log[2].args = ArgsDiff /\ opRet.log[2].code = 0
        /\ opEnv.current.code = 0
        /\ \E k \in 1..Len(opRet.log) :
              opRet.log[k].args = ArgsShowCurrent /\ opRet.log[k].code = 0
        /\ \/ BranchName(TrimSpace(opEnv.current.out)) = opRet.target
           \/ \E k \in 1..Len(opRet.log) :
                 /\ opRet.log[k].args = ArgsCheckout(opRet.target)
                 /\ opRet.log[k].code = 0
        /\ EndsWithGoodPull(opRet.log)
        /\ opRet.log[Len(opRet.log)].args \in {ArgsPull, ArgsPullOrigin(opRet.target)}

\* A success that ended with the explicit pull, after a checkout.
C34_Witness ==
    /\ opPc = "CheckoutMainBranch"
    /\ opRet.result.Success
    /\ Count(opRet.log, IsCheckout) = 1
    /\ opRet.log[Len(opRet.log)].args = ArgsPullOrigin(opRet.target)
    /\ opEnv.setUpstream.code # 0

\* The environments that differ from env at most in the results of the
\* default-branch probes.
ProbeVariants(env) ==
    { [env EXCEPT !.symref = sym, !.showMain = main, !.showMaster = master] :
        sym \in SymbolicRefAnswers,
        main \in {Answer(0, <<>>), Answer(1, <<>>)},
        master \in {Answer(0, <<>>), Answer(1, <<>>)} }

\* The checkout, fetch, set-upstream and pull commands of a log, in order.
SyncCommands(log) == SelectSeq(log, IsSyncCommand)

\* C35: when the requested branch is neither empty nor "main", the outcome
\* of CheckoutMainBranch (Success, Message, Error, and the checkout, fetch
\* and pull commands invoked) is the same for every result of the
\* symbolic-ref query and the two show-ref probes, which are run all the
\* same.
C35_ProbesDoNotMatter ==
    (opPc = "CheckoutMainBranch" /\ opBranch \notin {"", "main"}) =>
        /\ \A other \in ProbeVariants(opEnv) :
              /\ CheckoutMainBranch(other, OpRepo, opBranch).result = opRet.result
              /\ CheckoutMainBranch(other, OpRepo, opBranch).target = opRet.target
              /\ SyncCommands(CheckoutMainBranch(other, OpRepo, opBranch).log)
                    = SyncCommands(opRet.log)
        /\ Clean(opEnv) => opRet.log[3].args = ArgsSymbolicRef

\* "dev" was requested and synced in a working copy whose default branch
\* resolves to "master".
C35_Witness ==
    /\ opPc = "CheckoutMainBranch"
    /\ opBranch = "dev"
    /\ opEnv.symref.code = 0
    /\ ResolvedDefault(opEnv) = "master"
    /\ opRet.target = "dev"
    /\ opRet.result.Success
    /\ opRet.log[3].args = ArgsSymbolicRef

\* The outcome of the CheckoutMainBranch that SyncSingleRepository runs for
\* a path.
Underlying(env, repoPath, branch) ==
    CheckoutMainBranch(env, [Path |-> repoPath, Name |-> Base(repoPath)], branch).result

\* C36: SyncSingleRepository returns a non-nil error exactly when the
\* outcome of its CheckoutMainBranch is not successful, and the error is
\* that outcome's Error.
C36_ErrorIffFailed ==
    opPc = "SyncSingleRepository" =>
        /\ (opRet.err # Nil) <=> ~Underlying(opEnv, OpRepo.Path, opBranch).Success
        /\ opRet.err # Nil =>
              opRet.err = Underlying(opEnv, OpRepo.Path, opBranch).Error
        /\ Underlying(opEnv, OpRepo.Path, opBranch).Repository = OpRepo

\* SyncSingleRepository returned the error of a working copy with unstaged
\* changes.
C36_Witness ==
    /\ opPc = "SyncSingleRepository"
    /\ opEnv.staged = 0 /\ opEnv.unstaged = 1
    /\ opRet.err = <<"repository has uncommitted changes">>

\* ------------------------------------------------------------------------
\* Further properties of SyncRepositories (specification Spec)
\* ------------------------------------------------------------------------

\* A diff check of the log could not tell whether there are differences.
GuardCouldNotRun(log) ==
    \E k \in 1..Len(log) : Phase(log[k]) = 1 /\ log[k].code \notin {0, 1}

OutcomeLine(result) ==
    <<IF result.Success THEN "     ok " ELSE "     failed ">> \o result.Message

IsOutcomeLine(line) == line # <<>> /\ line[1] \in {"     ok ", "     failed "}

OutcomeLines(output) == SelectSeq(output, IsOutcomeLine)

\* There is one outcome line per ended goroutine, and SyncRepositories has
\* returned only with every goroutine ended.
OutcomePrintedOnce ==
    /\ Len(OutcomeLines(out)) = Cardinality({w \in DOMAIN worker : worker[w].at = "done"})
    /\ \A w \in DOMAIN worker :
          /\ worker[w].at = "done" =>
                \E k \in 1..Len(out) : out[k] = OutcomeLine(worker[w].result)
          /\ SyncReturned => worker[w].at = "done"

\* A step adds an outcome line exactly when a goroutine ends, and that
\* goroutine has then printed its name line and written its slot, and
\* SyncRepositories has not returned.
OutcomeAfterNameAndWrite ==
    /\ Len(OutcomeLines(out')) # Len(OutcomeLines(out)) =>
          \E w \in DOMAIN worker : worker[w].at = "print" /\ worker'[w].at = "done"
    /\ \A w \in DOMAIN worker :
          (worker[w].at = "print" /\ worker'[w].at = "done") =>
              /\ out' = Append(out, OutcomeLine(worker[w].result))
              /\ \E k \in 1..Len(out) : out[k] = <<"  name ", repositories[w].Name>>
              /\ results[w] = worker[w].result
              /\ results[w].Repository = repositories[w]
              /\ ~SyncReturned /\ ~SyncReturned'

\* C30: every repository's outcome line is printed once, after its name
\* line and its slot write and before SyncRepositories returns; the order of
\* the outcome lines is the order in which the workers end.
C30_OutcomeLines ==
    []OutcomePrintedOnce /\ [][OutcomeAfterNameAndWrite]_vars

\* A returned batch of two whose outcome lines are in the reverse of the
\* discovery order, the failure of the second repository first, while
\* Results is in discovery order.
C30_Witness ==
    /\ SyncReturned /\ ret.err = Nil
    /\ Len(repositories) = 2
    /\ ret.result.Results[1].Success /\ ~ret.result.Results[2].Success
    /\ \A i \in 1..2 : ret.result.Results[i].Repository = repositories[i]
    /\ OutcomeLines(out) = << OutcomeLine(ret.result.Results[2]),
                              OutcomeLine(ret.result.Results[1]) >>

\* C32: every git command of the worker of repository i runs with its
\* working directory set to the Path of repository i, which is the Path of
\* no other repository of the batch: no worker runs a command in the
\* working copy of another.
C32_OwnDirectory ==
    \A w \in DOMAIN wlog :
        \A k \in 1..Len(wlog[w]) :
            /\ wlog[w][k].dir = repositories[w].Path
            /\ \A j \in DOMAIN repositories \ {w} :
                  wlog[w][k].dir # repositories[j].Path

\* Both workers of a batch of two ran a checkout and a pull.
C32_Witness ==
    /\ Len(repositories) = 2
    /\ \A w \in DOMAIN wlog :
          /\ Count(wlog[w], IsCheckout) = 1
          /\ Count(wlog[w], IsPull) >= 1

\* ------------------------------------------------------------------------
\* Further properties of the sync command (specification SpecCmd)
\* ------------------------------------------------------------------------

\* The branch the syncer is to be given: the flag's value when the flag is
\* on the command line with a value, else the configured branch.
IntendedBranch(f, config) ==
    IF f # FlagAbsent /\ f # "" THEN f ELSE config.GitBranch

\* C33: the branch flag overrides the configured branch only when it is
\* given on the command line; without it the branch passed to the syncer is
\* the configured GitBranch, not the flag's default.
C33_FlagOnlyWhenGiven ==
    [][ (cmdPc = "start" /\ cfg.state = "ok") =>
            cfg'.GitBranch = IntendedBranch(flag, cfg) ]_vars

\* The goroutines of runSync whose SyncSingleRepository returned nil, and
\* those whose call returned an error.
CmdSucceeded == { w \in DOMAIN cmdWorker : cmdWorker[w].err = Nil }
CmdFailed == { w \in DOMAIN cmdWorker : cmdWorker[w].err # Nil }

\* wg.Wait() has returned in a runSync that reached the launch loop.
AfterBarrier == cfg.state = "ok" /\ cmdPc \in {"summary", "exited"}

\* C37: in every interleaving of the goroutines, after the wait barrier all
\* goroutines have finished, successCount + failureCount is the number of
\* configured repositories, and each repository is counted once: in
\* successCount when its sync returned nil, in failureCount otherwise.
C37_CountedOnce ==
    AfterBarrier =>
        /\ Len(cmdWorker) = Len(cfg.Repositories)
        /\ \A w \in DOMAIN cmdWorker : cmdWorker[w].at = "done"
        /\ ~mu
        /\ successCount + failureCount = Len(cfg.Repositories)
        /\ successCount = Cardinality(CmdSucceeded)
        /\ failureCount = Cardinality(CmdFailed)

\* Two repositories with the same outcome were counted, and the summary
\* was printed.
C37_Witness ==
    /\ AfterBarrier /\ cmdPc = "exited"
    /\ Len(cfg.Repositories) = 2
    /\ successCount = 2 /\ failureCount = 0

\* ------------------------------------------------------------------------
\* Properties of the docker Manager (specification SpecDocker)
\* ------------------------------------------------------------------------

\* The entry is a compose command line: sh -c "<compose> -f <file> -p ...".
IsCompose(e) == e.argv[1] = "sh"

\* The compose command of a log entry runs on the given compose file.
OnFile(e, file) == IsCompose(e) /\ SubSeq(e.argv, 5, 4 + Len(file)) = file

\* The compose file of a compose command line.
FileOf(e) == SubSeq(e.argv, 5, 4 + Len(NewManager.dependenciesFile))

\* The words of a compose command line after the project name.
Subcommand(e) == SubSeq(e.argv, 7 + Len(NewManager.dependenciesFile), Len(e.argv))

IsUp(e) == IsCompose(e) /\ Subcommand(e) = <<"up", "-d", "--build">>

IsPoll(e) == IsCompose(e) /\ Subcommand(e) = <<"ps", "--format", "json">>

IsStatus(e) == IsCompose(e) /\ Subcommand(e) = <<"ps">>

IsDown(e) == IsCompose(e) /\ Subcommand(e) = <<"down">>

IsVersion(e) == e.argv[Len(e.argv)] = "version"

\* What the wait loop makes of a logged poll.
Verdict(e) == checkAllServicesHealthy(Answer(e.code, e.out))

\* The command ends a wait loop: the status display of the timeout, a
\* failed poll or a healthy one.
Conclusive(e) == IsStatus(e) \/ (IsPoll(e) /\ (Verdict(e).err # Nil \/ Verdict(e).healthy))

\* The polls and status displays run so far on a compose file.
WaitCommands(file) ==
    SelectSeq(dockerLog, LAMBDA e : OnFile(e, file) /\ (IsPoll(e) \/ IsStatus(e)))

\* The command ends a wait loop without error: a healthy poll or a status
\* display that succeeded.
Passing(e) == (IsPoll(e) /\ Verdict(e).healthy) \/ (IsStatus(e) /\ e.code = 0)

\* The log shows the four steps of the dependencies workflow, in order and
\* each without error: docker info, a compose version, up, and a command
\* that ends the health wait without error.
DependenciesWorkflowPassed ==
    \E i \in DOMAIN dockerLog :
        /\ dockerLog[i] = DockerInfo(0)
        /\ \E j \in (i + 1)..Len(dockerLog) :
              /\ IsVersion(dockerLog[j]) /\ dockerLog[j].code = 0
              /\ \E k \in (j + 1)..Len(dockerLog) :
                    /\ IsUp(dockerLog[k]) /\ OnFile(dockerLog[k], NewManager.dependenciesFile)
                    /\ dockerLog[k].code = 0
                    /\ \E l \in (k + 1)..Len(dockerLog) :
                          /\ OnFile(dockerLog[l], NewManager.dependenciesFile)
                          /\ Passing(dockerLog[l])
                    /\ \A l \in (k + 1)..Len(dockerLog) :
                          (OnFile(dockerLog[l], NewManager.dependenciesFile) /\ Conclusive(dockerLog[l]))
                              => Passing(dockerLog[l])

\* StartAll has called StartServices.
ServicesGroupStarted ==
    \/ mgrOp = "StartAll" /\ filePath = NewManager.servicesFile
    \/ \E k \in DOMAIN dockerLog : IsUp(dockerLog[k]) /\ OnFile(dockerLog[k], NewManager.servicesFile)

\* The error StartAll returns for the first step of the dependencies
\* workflow that failed starts with that step's prefix.
FailedStepPrefix ==
    IF \A k \in DOMAIN dockerLog : dockerLog[k] # DockerInfo(0)
    THEN "docker daemon check failed: "
    ELSE IF composeInstalled = "none" THEN "docker compose check failed: "
    ELSE "failed to start dependencies: "

\* C38: StartAll starts the services group only after the daemon check, the
\* compose availability check, the compose up and the health wait of the
\* dependencies all returned without error; when one of them fails, StartAll
\* returns that error and the services group is never started.
C38_ServicesAfterDependencies ==
    mgrOp = "StartAll" =>
        /\ ServicesGroupStarted => DependenciesWorkflowPassed
        /\ (mgrPc = "returned" /\ ~DependenciesWorkflowPassed) =>
              /\ ~ServicesGroupStarted
              /\ mgrErr # Nil
              /\ mgrErr[1] = FailedStepPrefix

\* StartAll returned the error of a failed health poll of the dependencies,
\* after a compose up that succeeded.
C38_Witness ==
    /\ mgrOp = "StartAll" /\ mgrPc = "returned"
    /\ \E k \in DOMAIN dockerLog :
          IsUp(dockerLog[k]) /\ OnFile(dockerLog[k], NewManager.dependenciesFile) /\ dockerLog[k].code = 0
    /\ mgrErr = Wrap("failed to start dependencies: ",
                     Wrap("failed to check service status: ", ExitText(1)))
    /\ ~ServicesGroupStarted

\* WaitForHealthChecks has just returned mgrErr: ComposeConfig.StartDependencies
\* returns after a poll or a status display of its file only through it.
WaitReturned ==
    /\ mgrPc = "composeReturned"
    /\ dockerLog # <<>>
    /\ OnFile(dockerLog[Len(dockerLog)], filePath)
    /\ IsPoll(dockerLog[Len(dockerLog)]) \/ IsStatus(dockerLog[Len(dockerLog)])

\* C39: WaitForHealthChecks ends in one of three ways: with nil at the first
\* poll that finds all services healthy, with the poll's error at the first
\* poll that fails, or at the timeout with the result of the status display
\* (nil when that command succeeds); every earlier command of the wait is an
\* inconclusive poll, and no poll or status display of the compose file
\* follows the one that ended the wait.
C39_WaitEndings ==
    /\ \A i \in DOMAIN dockerLog :
          Conclusive(dockerLog[i]) =>
              \A j \in (i + 1)..Len(dockerLog) :
                  ~(/\ IsPoll(dockerLog[j]) \/ IsStatus(dockerLog[j])
                    /\ OnFile(dockerLog[j], FileOf(dockerLog[i])))
    /\ mgrPc = "WaitForHealthChecks" =>
          \A i \in DOMAIN dockerLog :
              OnFile(dockerLog[i], filePath) => ~Conclusive(dockerLog[i])
    /\ WaitReturned =>
          LET last == dockerLog[Len(dockerLog)] IN
             \/ IsPoll(last) /\ Verdict(last).healthy /\ mgrErr = Nil
             \/ /\ IsPoll(last) /\ last.code # 0
                /\ mgrErr = Wrap("failed to check service status: ", ExitText(1))
             \/ /\ IsStatus(last)
                /\ mgrErr = IF last.code = 0 THEN Nil ELSE ExitText(1)

\* The wait returned nil at the timeout, after a poll and with no healthy
\* poll, because the status display succeeded.
C39_Witness ==
    /\ WaitReturned
    /\ IsStatus(dockerLog[Len(dockerLog)])
    /\ Len(WaitCommands(filePath)) >= 2
    /\ \A k \in DOMAIN WaitCommands(filePath) : ~Verdict(WaitCommands(filePath)[k]).healthy
    /\ mgrErr = Nil

\* The down commands run so far.
DownCommands == SelectSeq(dockerLog, IsDown)

\* C40: Stop runs down on the services file, then on the dependencies file
\* whatever the first answered, and returns an error exactly when the down
\* of the dependencies failed.
C40_StopOrder ==
    (mgrOp = "Stop" /\ mgrPc = "returned") =>
        /\ Len(DownCommands) = 2
        /\ OnFile(DownCommands[1], NewManager.servicesFile)
        /\ OnFile(DownCommands[2], NewManager.dependenciesFile)
        /\ (mgrErr # Nil) <=> (DownCommands[2].code # 0)
        /\ mgrErr # Nil =>
              mgrErr = Wrap("failed to stop dependencies: ",
                            Wrap("failed to stop services: ", ExitText(1)))

\* Stop returned nil although the down of the services failed.
C40_Witness ==
    /\ mgrOp = "Stop" /\ mgrPc = "returned"
    /\ Len(DownCommands) = 2
    /\ DownCommands[1].code # 0 /\ DownCommands[2].code = 0
    /\ mgrErr = Nil

====
